---- MODULE Spec2Model ----
(***************************************************************************)
(* Zone 25 platform economy and hoarding enforcement (gemsmud).            *)
(*                                                                         *)
(* The model follows the game code: the station ash pool                   *)
(* (world/economy.py), the danger classifier and weight model              *)
(* (world/zone_monitor.py), the report command (commands/command.py),      *)
(* the investigation and monitor scripts (typeclasses/scripts.py) and the  *)
(* enforcement robot (typeclasses/npcs.py).  The host framework runs one   *)
(* command handler or script callback at a time, so every handler is one   *)
(* atomic action.                                                          *)
(***************************************************************************)
EXTENDS Integers, Sequences, FiniteSets, TLC

(***************************************************************************)
(* Settings (server/conf/settings.py).                                     *)
(***************************************************************************)
ZONE_ITEM_LIMIT == 1000
STATION_INITIAL_ASH_POOL == 500
STATION_MAX_ASH_POOL == 2000
STATION_ASH_RECHARGE == 5
HOARDING_MINOR_THRESHOLD == 10
HOARDING_MAJOR_THRESHOLD == 20
HOARDING_FINE_SCHEDULE == <<5, 15, 0>>
INVESTIGATION_TICKS == 5
INVESTIGATION_SPEEDUP_PER_REPORT == 1
EUTHANASIA_REWARD == 25
EUTHANASIA_DEBT == 50
PLAYER_BODY_WEIGHT == 5
SHOP_BASE_PRICE == 5
SHOP_GARMENT_PRICE == 12
SHOP_MASTERPIECE_PRICE == 50
SHOP_FOOD_PRICE == 4
SHOP_BOOK_PRICE == 4
SHOP_CURSED_BUY_PRICE == 2
SHOP_CURSED_SELL_PRICE == 4
SHOP_RESTOCK_INTERVAL == 600
SHOP_MAX_INVENTORY == 8
SHOP_RESTOCK_COUNT == 3
SHOP_ITEM_TTL == 3600
\* Fractions are kept exact: <<numerator, denominator>>.
ITEMATOR_COST == 1
\* delay(60, _auto_accept_gift, target.id)
GIFT_TIMEOUT == 60
ASH_REWARD_NORMAL == 1
ASH_REWARD_ARTWORK == 3
ASH_REWARD_CURSED == 2
SHOP_SELL_FRACTION == <<2, 5>>
\* Weight fractions in hundredths of an item-unit.
DISPLAY_WEIGHT_FRACTION == 50
MASTERPIECE_WEIGHT_FRACTION == 50
\* world/materials.py
MATERIAL_WEIGHT_FRACTION == 33

(***************************************************************************)
(* Bounds of the model.                                                    *)
(***************************************************************************)
\* Number of citizens (player characters) in the world.
NumCitizens == 3
\* Monitor ticks (180 s each) that a behaviour may contain.
MaxMonitorTicks == 2
\* Gettable items lying on the ground at the start.
GroundItems == 1
\* Objects followed one by one (the others are only counted).
MaxObjects == 3
\* Largest item count handed to the danger classifier from the small range.
MaxCount == 21
\* Auto-accept timers that may be running for one recipient.
MaxGiftTimers == 2
\* Largest number of objects of one pricing category on the platform.
MaxPopulation == 81
\* Largest number of citizens who report one hoarder before the robot comes.
MaxReporters == 30

Citizens == 1 .. NumCitizens
ObjectIds == 1 .. MaxObjects
\* The display shelves of the station.
Shelves == {1, 2}
\* No citizen: the caller or target of a timer callback in the observation
\* record (one past the last citizen).
Nobody == NumCitizens + 1

Min(a, b) == IF a < b THEN a ELSE b
Max(a, b) == IF a > b THEN a ELSE b

\* An attribute that is not set (obj.db.<name> is None): a weight fraction,
\* which is a number of hundredths when set, or the station's pool.
Unset == -1

\* "script.db.station_ash_pool or 0"
or_0(pool) == IF pool = Unset THEN 0 ELSE pool

\* How long ago an item was listed for sale (now - shop_listed_at), counted in
\* restock intervals; every age past the first one beyond SHOP_ITEM_TTL
\* counts as that one.
Ages == 0 .. (SHOP_ITEM_TTL \div SHOP_RESTOCK_INTERVAL + 1)

NothingListed == [age \in Ages |-> 0]

\* The global scripts of a database that was never started, and of one on
\* which at_server_start has run.
FreshDatabase == [item_monitor |-> 0, shop_restock |-> 0]
Started == [item_monitor |-> 1, shop_restock |-> 1]

VARIABLES
    station_ash_pool,     \* ItemMonitorScript.db.station_ash_pool
    monitor_ticks,        \* ItemMonitorScript.at_repeat calls so far
    ash_tokens,           \* character.db.ash_tokens, per citizen
    hoarding_offenses,    \* character.db.hoarding_offenses, per citizen
    under_investigation,  \* character.db.under_investigation, per citizen
    carried,              \* len(character.contents), per citizen
    ground,               \* gettable items lying in the room the citizens stand in
    investigations,       \* per target: the InvestigationScript rows keyed investigation_<id>
    robots,               \* per target: the RobotBehaviorScript rows keyed robot_behavior_<id>
    objects,              \* the objects followed one by one: where each is, and its db attributes
    shelf_owner,          \* DisplayShelf.db.shelf_owner, per shelf
    danger,               \* get_danger_level: the limit, the last two counts and their levels
    quote,                \* get_buy_price / get_sell_price: the item priced and the prices returned
    shop_menu,            \* per citizen: the sale the shop menu is waiting to have confirmed
    pending_gift,         \* character.ndb.pending_gift, per citizen, with the seconds since the offer
    gift_timers,          \* per citizen: seconds left on each delay(60, _auto_accept_gift, id)
    valid,                \* per citizen: the character still exists (character.pk)
    located,              \* per citizen: character.location is a room (None while logged out)
    temple,               \* search_object("KonMarie Temple") finds a room
    shelved,              \* per shelf: the plain (only counted) items standing on it
    server_scripts,       \* per key: the global scripts in the database
    shop_listed,          \* per age: the plain items for sale on the counter
    last                  \* the last report, pool operation or timer callback: inputs, outcome, values read

vars == <<station_ash_pool, monitor_ticks, ash_tokens, hoarding_offenses,
          under_investigation, carried, ground, investigations, robots,
          objects, shelf_owner, danger, quote, shop_menu, pending_gift,
          gift_timers, valid, located, temple, shelved, server_scripts,
          shop_listed, last>>

\* The records of pure-function calls, untouched by every handler.
calls == <<danger, quote>>

\* The characters that exist and are in a room, the temple room, and the
\* plain items on the shelves: what most handlers never touch.
beings == <<valid, located, temple, shelved, server_scripts, shop_listed>>

\* A gift on offer and the auto-accept timers that are running.
gifts == <<pending_gift, gift_timers>>

\* What lives in memory only: an open shop menu, a gift on offer, its timers.
sessions == <<shop_menu, pending_gift, gift_timers>>

(***************************************************************************)
(* world/economy.py: the station pool.                                     *)
(***************************************************************************)
\* credit_station_pool whose cap is one ash below the maximum.
credit_capped_early(pool, amount) ==
    Min(pool + amount, STATION_MAX_ASH_POOL - 1)

\* credit_station_pool that drops the amount instead of adding it.
credit_dropped(pool, amount) == pool

\* credit_station_pool with the cap left out.
credit_uncapped(pool, amount) == pool + amount

\* credit_station_pool(amount): the new pool value.
credit_station_pool(pool, amount) ==
    Min(or_0(pool) + amount, STATION_MAX_ASH_POOL)

\* debit_station_pool that pays out whatever the pool holds.
debit_partial(pool, amount) ==
    IF pool < amount THEN [ok |-> FALSE, pool |-> 0]
    ELSE [ok |-> TRUE, pool |-> pool - amount]

\* debit_station_pool that never refuses: an empty pool still pays.
debit_unchecked(pool, amount) ==
    [ok |-> TRUE, pool |-> Max(pool - amount, 0)]

\* debit_station_pool(amount): the returned flag and the new pool value.
debit_station_pool(pool, amount) ==
    IF or_0(pool) < amount THEN [ok |-> FALSE, pool |-> pool]
    ELSE [ok |-> TRUE, pool |-> or_0(pool) - amount]

(***************************************************************************)
(* Objects.  Plain items are interchangeable and only counted (carried,    *)
(* ground); an object whose attributes matter is followed one by one.      *)
(***************************************************************************)
\* No gift is on offer.
NoGift == [item |-> 0, from |-> 0, age |-> 0]

\* No sale waits in the shop menu.
NoSale == [node |-> "none", item |-> 0, price |-> 0]

\* The citizen's input goes to the command handlers: no menu holds it.
AtPrompt(caller) == shop_menu[caller].node = "none"

\* An object that does not exist (never created, or deleted).
Absent ==
    [place |-> "none", holder |-> Nobody, kind |-> "base", cursed |-> FALSE,
     artwork |-> FALSE, material |-> FALSE, displayed |-> FALSE,
     weight_fraction |-> Unset, original_weight_fraction |-> Unset]

\* An object in a citizen's inventory, with the attributes its prototype set.
Carried(holder, kind, cursed, artwork, material) ==
    [place |-> "inventory", holder |-> holder, kind |-> kind, cursed |-> cursed,
     artwork |-> artwork, material |-> material, displayed |-> FALSE,
     weight_fraction |-> IF material THEN MATERIAL_WEIGHT_FRACTION ELSE Unset,
     original_weight_fraction |-> Unset]

Exists(obj) == obj.place # "none"
InInventory(obj, char) == obj.place = "inventory" /\ obj.holder = char
OnShelf(obj) == obj.place = "shelf"
\* An object on a shelf keeps the shelf's number as its holder.
OnShelfOf(obj, shelf) == obj.place = "shelf" /\ obj.holder = shelf
InShop(obj) == obj.place = "shop"

NoObjects == [o \in ObjectIds |-> Absent]

(***************************************************************************)
(* world/zone_monitor.py: items attributable to a citizen: the inventory   *)
(* plus what stands on a display shelf the citizen has claimed.            *)
(***************************************************************************)
\* The plain items standing on the shelves of the set.
RECURSIVE SumShelved(_)
SumShelved(shelves) ==
    IF shelves = {} THEN 0
    ELSE LET shelf == CHOOSE x \in shelves : TRUE
         IN shelved[shelf] + SumShelved(shelves \ {shelf})

\* The plain items listed with one of the ages: len() of that stock.
RECURSIVE SumListed(_, _)
SumListed(listed, ages) ==
    IF ages = {} THEN 0
    ELSE LET age == CHOOSE x \in ages : TRUE
         IN listed[age] + SumListed(listed, ages \ {age})

\* get_player_item_count that leaves the shelves out.
get_player_item_count_inventory_only(char) ==
    carried[char]
    + Cardinality({o \in ObjectIds : InInventory(objects[o], char)})

get_player_item_count(char) ==
    carried[char]
    + Cardinality({o \in ObjectIds : InInventory(objects[o], char)})
    + Cardinality({o \in ObjectIds :
                      \E shelf \in Shelves : /\ shelf_owner[shelf] = char
                                              /\ OnShelfOf(objects[o], shelf)})
    + SumShelved({shelf \in Shelves : shelf_owner[shelf] = char})

(***************************************************************************)
(* world/zone_monitor.py: the danger classifier.                           *)
(***************************************************************************)
\* A level no classification returns.
LEVEL_NEVER == "never"

LEVEL_SINKING == "sinking"

\* THRESHOLDS, in hundredths of the limit.
THRESHOLDS == [warning |-> 75, critical |-> 90, sinking |-> 100]

\* The levels in rising order of danger.
LevelRank(level) ==
    CASE level = "safe" -> 0
      [] level = "warning" -> 1
      [] level = "critical" -> 2
      [] OTHER -> 3

\* get_danger_level whose top level needs the count to exceed the limit.
get_danger_level_strict(count, limit) ==
    LET lim == Max(limit, 1)
    IN IF 100 * count > THRESHOLDS.sinking * lim THEN "sinking"
       ELSE IF 100 * count >= THRESHOLDS.critical * lim THEN "critical"
       ELSE IF 100 * count >= THRESHOLDS.warning * lim THEN "warning"
       ELSE "safe"

\* get_danger_level(count): ratio = count / max(limit, 1) is compared with
\* the thresholds, highest first.  ratio >= t/100 is count * 100 >= t * limit
\* in integers (the division is correctly rounded, so the float comparison
\* agrees for every limit below 10^15).
get_danger_level(count, limit) ==
    LET lim == Max(limit, 1)
    IN IF 100 * count >= THRESHOLDS.sinking * lim THEN "sinking"
       ELSE IF 100 * count >= THRESHOLDS.critical * lim THEN "critical"
       ELSE IF 100 * count >= THRESHOLDS.warning * lim THEN "warning"
       ELSE "safe"

\* Before any call: the limit of the settings, and count 0 classified safe
\* (what ItemMonitorScript.at_script_creation caches).
NoDanger ==
    [limit |-> ZONE_ITEM_LIMIT, count |-> 0, level |-> "safe",
     prev_count |-> 0, prev_level |-> "safe", broadcast |-> "none"]

(***************************************************************************)
(* world/economy.py: pricing.  A multiplier is kept as an exact fraction   *)
(* <<numerator, denominator>>; int(x) of a non-negative x is the floor.    *)
(***************************************************************************)
Categories == {"cursed", "artwork", "garment", "food", "book", "base"}

SCARCITY_BASELINES ==
    [cursed |-> 5, artwork |-> 10, garment |-> 20, food |-> 15, book |-> 15,
     base |-> 30]
SCARCITY_MIN == <<1, 4>>
SCARCITY_MAX == <<3, 1>>

FracLess(a, b) == a[1] * b[2] < b[1] * a[2]
FracMin(a, b) == IF FracLess(b, a) THEN b ELSE a
FracMax(a, b) == IF FracLess(a, b) THEN b ELSE a
\* int(n * fraction)
ScaleInt(n, fraction) == (n * fraction[1]) \div fraction[2]

\* _get_item_category(obj); kind stands for what the typeclass path, the key
\* and the edible / readable_text attributes say when neither flag is set.
get_item_category(obj) ==
    IF obj.cursed THEN "cursed"
    ELSE IF obj.artwork THEN "artwork"
    ELSE obj.kind

\* _count_category(category); found is what the database query for the
\* category returns, and "base" is not counted at all.
count_category(category, found) ==
    IF category = "base" THEN Max(1, SCARCITY_BASELINES.base) ELSE found

\* _scarcity_multiplier without the clamp.
scarcity_multiplier_unclamped(category, found) ==
    LET baseline == SCARCITY_BASELINES[category]
        count == count_category(category, found)
    IN IF count <= 0 THEN SCARCITY_MAX ELSE <<baseline, count>>

\* _scarcity_multiplier(category)
scarcity_multiplier(category, found) ==
    LET baseline == SCARCITY_BASELINES[category]
        count == count_category(category, found)
    IN IF count <= 0 THEN SCARCITY_MAX
       ELSE FracMax(SCARCITY_MIN, FracMin(SCARCITY_MAX, <<baseline, count>>))

\* _base_buy_price(obj)
base_buy_price(obj) ==
    LET category == get_item_category(obj)
    IN CASE category = "cursed" -> SHOP_CURSED_BUY_PRICE
         [] category = "artwork" -> SHOP_MASTERPIECE_PRICE
         [] category = "garment" -> SHOP_GARMENT_PRICE
         [] category = "food" -> SHOP_FOOD_PRICE
         [] category = "book" -> SHOP_BOOK_PRICE
         [] OTHER -> SHOP_BASE_PRICE

\* get_buy_price(obj)
get_buy_price(obj, found) ==
    Max(1, ScaleInt(base_buy_price(obj),
                    scarcity_multiplier(get_item_category(obj), found)))

\* get_sell_price without the floor of 1 ash.
get_sell_price_no_floor(obj, found) ==
    IF get_item_category(obj) = "cursed"
    THEN ScaleInt(SHOP_CURSED_SELL_PRICE, scarcity_multiplier("cursed", found))
    ELSE ScaleInt(get_buy_price(obj, found), SHOP_SELL_FRACTION)

\* get_sell_price(obj)
get_sell_price(obj, found) ==
    IF get_item_category(obj) = "cursed"
    THEN Max(1, ScaleInt(SHOP_CURSED_SELL_PRICE,
                         scarcity_multiplier("cursed", found)))
    ELSE Max(1, ScaleInt(get_buy_price(obj, found), SHOP_SELL_FRACTION))

\* No price asked yet.
NoQuote ==
    [asked |-> FALSE, item |-> Absent, found |-> 0, multiplier |-> <<1, 1>>,
     buy |-> 0, sell |-> 0]

(***************************************************************************)
(* typeclasses/scripts.py: InvestigationScript.                            *)
(***************************************************************************)
\* create_script(InvestigationScript, attributes target, reporters=[caller])
\* after at_script_creation set the tick budget.
new_investigation(target, caller) ==
    [target |-> target,
     ticks_remaining |-> INVESTIGATION_TICKS,
     total_ticks |-> INVESTIGATION_TICKS,
     reporters |-> {caller}]

\* add_reporter without the floor of one tick.
add_reporter_no_floor(script, reporter) ==
    IF reporter \notin script.reporters
    THEN [script EXCEPT !.reporters = @ \cup {reporter},
                        !.ticks_remaining = @ - INVESTIGATION_SPEEDUP_PER_REPORT]
    ELSE script

\* add_reporter that starts the count-down again for every new reporter.
add_reporter_restarting(script, reporter) ==
    IF reporter \notin script.reporters
    THEN [script EXCEPT !.reporters = @ \cup {reporter},
                        !.ticks_remaining = script.total_ticks]
    ELSE script

\* InvestigationScript.add_reporter(reporter)
add_reporter(script, reporter) ==
    IF reporter \notin script.reporters
    THEN [script EXCEPT !.reporters = @ \cup {reporter},
                        !.ticks_remaining =
                            Max(1, @ - INVESTIGATION_SPEEDUP_PER_REPORT)]
    ELSE script

\* A robot script that was not handed the reporters.
new_robot_without_reporters(script) ==
    [target |-> script.target, reporters |-> {}, phase |-> "announce",
     obj |-> TRUE]

\* RobotBehaviorScript row created by InvestigationScript._spawn_robot
\* and the SecurityRobot it is attached to (obj: the robot still exists).
new_robot(script) ==
    [target |-> script.target, reporters |-> script.reporters, phase |-> "announce",
     obj |-> TRUE]

RemoveAt(s, k) == SubSeq(s, 1, k - 1) \o SubSeq(s, k + 1, Len(s))

(***************************************************************************)
(* The observation record: the last report, pool operation, pick-up or     *)
(* timer callback that changed the world, with its inputs and outcome and  *)
(* the values it read before it changed anything.  A handler that returns  *)
(* early with only a message leaves the record as it is.                   *)
(***************************************************************************)
TicksOf(target) ==
    IF Len(investigations[target]) > 0
    THEN investigations[target][1].ticks_remaining ELSE 0

ReportersOf(target) ==
    IF Len(investigations[target]) > 0
    THEN investigations[target][1].reporters ELSE {}

Snapshot(op, caller, target, result, amount) ==
    [op |-> op, caller |-> caller, target |-> target, result |-> result,
     amount |-> amount,
     pool |-> station_ash_pool,
     ash |-> IF target = Nobody THEN 0 ELSE ash_tokens[target],
     offenses |-> IF target = Nobody THEN 0 ELSE hoarding_offenses[target],
     flagged |-> IF target = Nobody THEN FALSE ELSE under_investigation[target],
     count |-> IF target = Nobody THEN 0 ELSE get_player_item_count(target),
     scripts |-> IF target = Nobody THEN 0 ELSE Len(investigations[target]),
     ticks |-> IF target = Nobody THEN 0 ELSE TicksOf(target),
     reporters |-> IF target = Nobody THEN {} ELSE ReportersOf(target),
     item |-> 0, shop |-> "none", phase |-> "none"]

\* The record of a handler that worked on object o for the caller.
ItemSnapshot(op, caller, result, amount, o) ==
    [Snapshot(op, caller, caller, result, amount) EXCEPT !.item = o]

(***************************************************************************)
(* commands/command.py: CmdReport.                                         *)
(***************************************************************************)
\* The fine schedule read past the sentinel: the last entry charged again.
scheduled_fine_no_sentinel(offenses) ==
    IF offenses < Len(HOARDING_FINE_SCHEDULE) - 1
    THEN HOARDING_FINE_SCHEDULE[offenses + 1]
    ELSE HOARDING_FINE_SCHEDULE[Len(HOARDING_FINE_SCHEDULE) - 1]

\* The fine schedule indexed from one, as if Python lists started at 1.
scheduled_fine_from_one(offenses) ==
    IF offenses + 1 < Len(HOARDING_FINE_SCHEDULE)
    THEN HOARDING_FINE_SCHEDULE[offenses + 2]
    ELSE 0

\* CmdReport.func: the fine the schedule gives for a citizen with `offenses`
\* earlier offenses (0 = escalate).  Python indexes from 0.
scheduled_fine(offenses) ==
    IF offenses < Len(HOARDING_FINE_SCHEDULE)
    THEN HOARDING_FINE_SCHEDULE[offenses + 1]
    ELSE 0

\* A report that is looked into whatever the target carries.
below_minor_never(item_count) == FALSE

\* CmdReport.func: "if item_count < minor_threshold"
below_minor(item_count) == item_count < HOARDING_MINOR_THRESHOLD

\* The tier test with a strict comparison.
is_major_strict(item_count) == item_count > HOARDING_MAJOR_THRESHOLD

\* CmdReport.func: the major tier.
is_major(item_count) == item_count >= HOARDING_MAJOR_THRESHOLD

\* CmdReport._start_investigation(target)
start_investigation(caller, target) ==
    /\ under_investigation' = [under_investigation EXCEPT ![target] = TRUE]
    /\ investigations' =
           [investigations EXCEPT ![target] =
                Append(@, new_investigation(target, caller))]

\* CmdReport.func, with self.caller = caller and the searched target found.
CmdReport(caller, target) ==
    LET item_count == get_player_item_count(target)
        offenses == hoarding_offenses[target]
        fine == scheduled_fine(offenses)
    IN
    IF target = caller
    THEN \* "You can't report yourself."
         UNCHANGED <<station_ash_pool, ash_tokens, hoarding_offenses,
                     under_investigation, investigations, last>>
    ELSE IF below_minor(item_count)
    THEN \* "... they don't seem to be hoarding."
         UNCHANGED <<station_ash_pool, ash_tokens, hoarding_offenses,
                     under_investigation, investigations, last>>
    ELSE IF under_investigation[target]
    THEN IF Len(investigations[target]) = 1
         THEN \* ScriptDB.objects.get found the script
              /\ investigations' =
                     [investigations EXCEPT ![target] =
                          <<add_reporter(@[1], caller)>>]
              /\ last' = IF caller \in investigations[target][1].reporters
                          THEN last
                          ELSE Snapshot("report", caller, target, "added", 0)
              /\ UNCHANGED <<station_ash_pool, ash_tokens, hoarding_offenses,
                             under_investigation>>
         ELSE \* DoesNotExist is answered with a message; MultipleObjectsReturned
              \* aborts the command.  Neither changes anything.
              UNCHANGED <<station_ash_pool, ash_tokens, hoarding_offenses,
                          under_investigation, investigations, last>>
    ELSE IF is_major(item_count)
    THEN /\ start_investigation(caller, target)
         /\ last' = Snapshot("report", caller, target, "major", 0)
         /\ UNCHANGED <<station_ash_pool, ash_tokens, hoarding_offenses>>
    ELSE IF fine = 0
    THEN /\ start_investigation(caller, target)
         /\ last' = Snapshot("report", caller, target, "escalated", 0)
         /\ UNCHANGED <<station_ash_pool, ash_tokens, hoarding_offenses>>
    ELSE /\ ash_tokens' = [ash_tokens EXCEPT ![target] = @ - fine]
         /\ hoarding_offenses' = [hoarding_offenses EXCEPT ![target] = offenses + 1]
         /\ station_ash_pool' = credit_station_pool(station_ash_pool, fine)
         /\ last' = Snapshot("report", caller, target, "fined", fine)
         /\ UNCHANGED <<under_investigation, investigations>>

Report(caller, target) ==
    /\ valid[caller] /\ located[caller]
    /\ valid[target] /\ located[target]
    /\ AtPrompt(caller)
    /\ CmdReport(caller, target)
    /\ UNCHANGED <<monitor_ticks, carried, ground, robots, objects, shelf_owner, calls, sessions,
                   beings>>

(***************************************************************************)
(* commands/command.py: CmdGet with "get all": everything gettable in the  *)
(* room moves into the caller's inventory.                                 *)
(***************************************************************************)
GetAll(caller) ==
    /\ valid[caller] /\ located[caller]
    /\ ground > 0
    /\ carried' = [carried EXCEPT ![caller] = @ + ground]
    /\ ground' = 0
    /\ last' = Snapshot("get_all", caller, caller, "moved", ground)
    /\ UNCHANGED <<station_ash_pool, monitor_ticks, ash_tokens, hoarding_offenses,
                   under_investigation, investigations, robots, objects,
                   shelf_owner, calls, sessions,
                   beings>>

(***************************************************************************)
(* typeclasses/scripts.py: InvestigationScript.at_repeat, fired by the     *)
(* script's timer for the k-th investigation row of `target`.              *)
(*                                                                         *)
(* Timers: an investigation first fires 60 s after it was created          *)
(* (interval 60, start_delay), a robot runs its six phases at 0, 10, ...,  *)
(* 50 s after it was spawned (interval 10, no start_delay).  An            *)
(* investigation opened after a robot was spawned therefore cannot resolve *)
(* before that robot has cleaned up: RobotDone states this ordering.       *)
(***************************************************************************)
RobotDone(target) == robots[target] = <<>>

\* The timer that does not look whether its target is still there.
target_gone_unnoticed(target) == FALSE

\* "not target or not target.pk"
target_gone(target) == ~valid[target]

InvestigationRepeat(target, k) ==
    /\ k \in DOMAIN investigations[target]
    /\ LET script == investigations[target][k]
           remaining == script.ticks_remaining - 1
       IN IF target_gone(target)
          THEN \* "if not target or not target.pk": stop, nothing else
               /\ investigations' =
                      [investigations EXCEPT ![target] = RemoveAt(@, k)]
               /\ last' = Snapshot("inv_tick", Nobody, target, "invalidated", 0)
               /\ UNCHANGED <<under_investigation, robots>>
          ELSE IF remaining > 0
          THEN /\ investigations' =
                      [investigations EXCEPT ![target][k].ticks_remaining = remaining]
               /\ last' = Snapshot("inv_tick", Nobody, target, "underway", 0)
               /\ UNCHANGED <<under_investigation, robots>>
          ELSE \* _spawn_robot, then clear the flag and stop the script
               /\ RobotDone(target)
               /\ robots' = IF temple
                             THEN [robots EXCEPT ![target] = Append(@, new_robot(script))]
                             ELSE robots
               /\ under_investigation' = [under_investigation EXCEPT ![target] = FALSE]
               /\ investigations' =
                      [investigations EXCEPT ![target] = RemoveAt(@, k)]
               /\ last' = Snapshot("inv_tick", Nobody, target, "resolved", 0)
    /\ UNCHANGED <<station_ash_pool, monitor_ticks, ash_tokens, hoarding_offenses,
                   carried, ground, objects, shelf_owner, calls, sessions,
                   beings>>

(***************************************************************************)
(* typeclasses/npcs.py: RobotBehaviorScript.at_repeat, one phase per tick. *)
(***************************************************************************)
\* A machine that never leaves the phase it is in.
next_phase_repeating(phase) == phase

\* A machine that goes from the warning straight to the punishment.
next_phase_without_escort(phase) ==
    CASE phase = "announce" -> "move"
      [] phase = "move" -> "seize"
      [] phase = "seize" -> "execute"
      [] OTHER -> "cleanup"

\* The phase a valid run moves to after `phase`.
next_phase(phase) ==
    CASE phase = "announce" -> "move"
      [] phase = "move" -> "seize"
      [] phase = "seize" -> "escort"
      [] phase = "escort" -> "execute"
      [] OTHER -> "cleanup"

\* _phase_execute: each living reporter's share of the reward.
reporter_share(n) == Max(1, EUTHANASIA_REWARD \div n)

\* The debt taken off the balance instead of written over it.
execute_balance_subtracted(balance) == balance - EUTHANASIA_DEBT

\* target.db.ash_tokens = -(debt)
execute_balance(balance) == -EUTHANASIA_DEBT

\* Every reporter on the script, gone or not.
living_reporters_unfiltered(script) == script.reporters

\* The reporters that still exist: [r for r in reporters if r and r.pk].
living_reporters(script) == {r \in script.reporters : valid[r]}

\* The test at the head of a phase: which references it finds gone.
phase_aborts(script, phase) ==
    IF phase = "execute" THEN ~valid[script.target]
    ELSE \/ ~valid[script.target]
         \/ ~script.obj
         \/ phase = "move" /\ ~located[script.target]
         \/ phase = "escort" /\ ~temple

RobotRepeat(target, k) ==
    /\ k \in DOMAIN robots[target]
    /\ LET script == robots[target][k]
           phase == script.phase
           Record(result) ==
               [Snapshot("robot_tick", Nobody, target, result, 0)
                   EXCEPT !.phase = phase]
       IN IF phase \notin {"announce", "move", "seize", "escort", "execute"}
          THEN \* _phase_cleanup, also for an unknown phase
               /\ robots' = [robots EXCEPT ![target] = RemoveAt(@, k)]
               /\ last' = Record("cleanup")
               /\ UNCHANGED <<ash_tokens, hoarding_offenses, under_investigation,
                              carried, objects>>
          ELSE IF phase_aborts(script, phase)
          THEN \* the phase calls _phase_cleanup() and returns
               /\ robots' = [robots EXCEPT ![target] = RemoveAt(@, k)]
               /\ last' = Record("aborted")
               /\ UNCHANGED <<ash_tokens, hoarding_offenses, under_investigation,
                              carried, objects>>
          ELSE IF phase # "execute"
          THEN /\ robots' = [robots EXCEPT ![target][k].phase = next_phase(phase)]
               /\ last' = Record(phase)
               /\ UNCHANGED <<ash_tokens, hoarding_offenses, under_investigation,
                              carried, objects>>
          ELSE \* every object in the target's inventory is deleted
               /\ carried' = [carried EXCEPT ![target] = 0]
               /\ objects' = [o \in ObjectIds |->
                                 IF InInventory(objects[o], target)
                                 THEN Absent ELSE objects[o]]
               /\ ash_tokens' =
                      [c \in Citizens |->
                          LET base == IF c = target
                                      THEN execute_balance(ash_tokens[c])
                                      ELSE ash_tokens[c]
                              living == living_reporters(script)
                          IN IF c \in living
                             THEN base + reporter_share(Cardinality(living))
                             ELSE base]
               /\ hoarding_offenses' = [hoarding_offenses EXCEPT ![target] = 0]
               /\ under_investigation' = [under_investigation EXCEPT ![target] = FALSE]
               /\ robots' = [robots EXCEPT ![target][k].phase = "cleanup"]
               /\ last' = Record(phase)
    /\ UNCHANGED <<station_ash_pool, monitor_ticks, ground, investigations,
                   shelf_owner, calls, sessions, beings>>

(***************************************************************************)
(* What happens to the characters from outside the game's own code: a      *)
(* character is deleted (the account's chardelete, or a builder), or the    *)
(* robot object is destroyed while its script is still scheduled.  A        *)
(* deleted character's things go to the room.                               *)
(***************************************************************************)
DeleteCharacter(char) ==
    /\ valid[char]
    /\ valid' = [valid EXCEPT ![char] = FALSE]
    /\ carried' = [carried EXCEPT ![char] = 0]
    /\ ground' = ground + carried[char]
    /\ objects' = [o \in ObjectIds |->
                      IF InInventory(objects[o], char)
                      THEN [objects[o] EXCEPT !.place = "room", !.holder = Nobody]
                      ELSE objects[o]]
    /\ last' = Snapshot("delete", Nobody, char, "deleted", 0)
    /\ UNCHANGED <<station_ash_pool, monitor_ticks, ash_tokens, hoarding_offenses,
                   under_investigation, investigations, robots, shelf_owner,
                   calls, sessions, located, temple, shelved, server_scripts,
                   shop_listed>>

\* The player logs out: DefaultCharacter.at_post_unpuppet stows the character
\* away (location None, inventory kept); logging in puts it back in a room.
Logout(char) ==
    /\ valid[char]
    /\ located[char]
    /\ AtPrompt(char)
    /\ located' = [located EXCEPT ![char] = FALSE]
    /\ last' = Snapshot("logout", char, char, "left", 0)
    /\ UNCHANGED <<station_ash_pool, monitor_ticks, ash_tokens, hoarding_offenses,
                   under_investigation, carried, ground, investigations, robots,
                   objects, shelf_owner, calls, sessions, valid, temple, shelved,
                   server_scripts, shop_listed>>

Login(char) ==
    /\ valid[char]
    /\ ~located[char]
    /\ located' = [located EXCEPT ![char] = TRUE]
    /\ last' = Snapshot("login", char, char, "entered", 0)
    /\ UNCHANGED <<station_ash_pool, monitor_ticks, ash_tokens, hoarding_offenses,
                   under_investigation, carried, ground, investigations, robots,
                   objects, shelf_owner, calls, sessions, valid, temple, shelved,
                   server_scripts, shop_listed>>

\* A builder destroys the temple room.
DeleteTemple ==
    /\ temple
    /\ temple' = FALSE
    /\ last' = Snapshot("delete_temple", Nobody, Nobody, "deleted", 0)
    /\ UNCHANGED <<station_ash_pool, monitor_ticks, ash_tokens, hoarding_offenses,
                   under_investigation, carried, ground, investigations, robots,
                   objects, shelf_owner, calls, sessions, valid, located, shelved,
                   server_scripts, shop_listed>>

DeleteRobot(target, k) ==
    /\ k \in DOMAIN robots[target]
    /\ robots[target][k].obj
    /\ robots' = [robots EXCEPT ![target][k].obj = FALSE]
    /\ last' = Snapshot("delete_robot", Nobody, target, "deleted", 0)
    /\ UNCHANGED <<station_ash_pool, monitor_ticks, ash_tokens, hoarding_offenses,
                   under_investigation, carried, ground, investigations, objects,
                   shelf_owner, calls, sessions, beings>>

\* The timer of any one investigation of `target` fires.
InvestigationTick(target) ==
    \E k \in DOMAIN investigations[target] : InvestigationRepeat(target, k)

\* The timer of any one robot sent for `target` fires.
RobotTick(target) ==
    \E k \in DOMAIN robots[target] : RobotRepeat(target, k)

(***************************************************************************)
(* world/zone_monitor.py: the weighted item count of the platform, in      *)
(* hundredths of an item-unit until int() truncates it.                    *)
(***************************************************************************)
RECURSIVE SumCarried(_)
SumCarried(n) == IF n = 0 THEN 0 ELSE carried[n] + SumCarried(n - 1)

\* get_item_count whose display adjustment does not skip materials.
get_item_count_display_any ==
    LET player_count == Cardinality(Citizens)
        raw_items ==
            SumCarried(NumCitizens) + ground + SumShelved(Shelves)
            + SumListed(shop_listed, Ages)
            + Cardinality({o \in ObjectIds : Exists(objects[o])})
        material_count ==
            Cardinality({o \in ObjectIds : objects[o].material})
        display_count ==
            Cardinality({o \in ObjectIds : objects[o].displayed})
            + SumShelved(Shelves)
        masterpiece_count ==
            Cardinality({o \in ObjectIds :
                            /\ objects[o].artwork
                            /\ ~objects[o].material
                            /\ ~objects[o].displayed})
        weighted ==
            100 * raw_items
            - 100 * material_count + material_count * MATERIAL_WEIGHT_FRACTION
            - 100 * display_count + display_count * DISPLAY_WEIGHT_FRACTION
            - 100 * masterpiece_count
            + masterpiece_count * MASTERPIECE_WEIGHT_FRACTION
            + 100 * player_count * PLAYER_BODY_WEIGHT
    IN weighted \div 100

get_item_count ==
    LET IsMaterial(obj) == obj.material
        IsDisplayOnly(obj) == obj.displayed /\ ~obj.material
        IsMasterpieceOnly(obj) == obj.artwork /\ ~obj.material /\ ~obj.displayed
        \* every character here is a player's: db_account is set
        player_count == Cardinality(Citizens)
        raw_items ==
            SumCarried(NumCitizens) + ground + SumShelved(Shelves)
            + SumListed(shop_listed, Ages)
            + Cardinality({o \in ObjectIds : Exists(objects[o])})
        material_count == Cardinality({o \in ObjectIds : IsMaterial(objects[o])})
        display_count ==
            Cardinality({o \in ObjectIds : IsDisplayOnly(objects[o])})
            + SumShelved(Shelves)
        masterpiece_count ==
            Cardinality({o \in ObjectIds : IsMasterpieceOnly(objects[o])})
        weighted ==
            100 * raw_items
            - 100 * material_count + material_count * MATERIAL_WEIGHT_FRACTION
            - 100 * display_count + display_count * DISPLAY_WEIGHT_FRACTION
            - 100 * masterpiece_count
            + masterpiece_count * MASTERPIECE_WEIGHT_FRACTION
            + 100 * player_count * PLAYER_BODY_WEIGHT
    IN weighted \div 100

(***************************************************************************)
(* typeclasses/objects.py: the display shelf and its four commands.        *)
(***************************************************************************)
SHELF_CAPACITY == 5

\* Retrieval that leaves the fraction the shelf gave.
restored_fraction_kept(obj) == obj.weight_fraction

\* CmdRetrieve.func: the saved fraction if there is one, else none at all.
restored_fraction(obj) ==
    IF obj.original_weight_fraction # Unset
    THEN obj.original_weight_fraction
    ELSE Unset

\* Claiming without looking whether the shelf has an owner.
shelf_is_claimed_never(shelf) == FALSE

\* CmdClaim.func: "if owner and owner.pk"
shelf_is_claimed(shelf) ==
    shelf_owner[shelf] # Nobody /\ valid[shelf_owner[shelf]]

\* len(current): everything that stands on the shelf.
shelf_load(shelf) ==
    shelved[shelf] + Cardinality({x \in ObjectIds : OnShelfOf(objects[x], shelf)})

CmdClaim(caller, shelf) ==
    /\ valid[caller]
    /\ IF shelf_is_claimed(shelf)
       THEN \* "You already own this shelf." / "This shelf is claimed by ..."
            UNCHANGED <<shelf_owner, last>>
       ELSE /\ shelf_owner' = [shelf_owner EXCEPT ![shelf] = caller]
            /\ last' = Snapshot("claim", caller, caller, "claimed", shelf)
    /\ UNCHANGED <<station_ash_pool, monitor_ticks, ash_tokens, hoarding_offenses,
                   under_investigation, carried, ground, investigations, robots,
                   objects, calls, sessions,
                   beings>>

CmdUnclaim(caller, shelf) ==
    /\ valid[caller]
    /\ IF shelf_owner[shelf] # caller
       THEN \* "This shelf is not claimed by anyone." / "This shelf belongs to ..."
            UNCHANGED <<shelf_owner, last>>
       ELSE /\ shelf_owner' = [shelf_owner EXCEPT ![shelf] = Nobody]
            /\ last' = Snapshot("unclaim", caller, caller, "released", shelf)
    /\ UNCHANGED <<station_ash_pool, monitor_ticks, ash_tokens, hoarding_offenses,
                   under_investigation, carried, ground, investigations, robots,
                   objects, calls, sessions,
                   beings>>

\* CmdDisplay.func for an object followed one by one.
CmdDisplay(caller, shelf, o) ==
    /\ valid[caller]
    /\ IF \/ shelf_owner[shelf] # caller
          \/ ~InInventory(objects[o], caller)
          \/ shelf_load(shelf) >= SHELF_CAPACITY
       THEN \* "You must claim this shelf first." / not found / "The shelf is full."
            UNCHANGED <<objects, last>>
       ELSE /\ objects' = [objects EXCEPT
                              ![o].place = "shelf",
                              ![o].holder = shelf,
                              ![o].displayed = TRUE,
                              ![o].original_weight_fraction =
                                  IF objects[o].weight_fraction # Unset
                                  THEN objects[o].weight_fraction
                                  ELSE @,
                              ![o].weight_fraction = DISPLAY_WEIGHT_FRACTION]
            /\ last' = Snapshot("display", caller, caller, "placed", o)
    /\ UNCHANGED <<station_ash_pool, monitor_ticks, ash_tokens, hoarding_offenses,
                   under_investigation, carried, ground, investigations, robots,
                   shelf_owner, calls, sessions,
                   beings>>

\* CmdRetrieve.func for an object followed one by one.
CmdRetrieve(caller, shelf, o) ==
    /\ valid[caller]
    /\ IF shelf_owner[shelf] # caller \/ ~OnShelfOf(objects[o], shelf)
       THEN \* "This isn't your shelf." / "That isn't on the shelf."
            UNCHANGED <<objects, last>>
       ELSE /\ objects' = [objects EXCEPT
                              ![o].place = "inventory",
                              ![o].holder = caller,
                              ![o].weight_fraction = restored_fraction(objects[o]),
                              ![o].original_weight_fraction = Unset,
                              ![o].displayed = FALSE]
            /\ last' = Snapshot("retrieve", caller, caller, "taken", o)
    /\ UNCHANGED <<station_ash_pool, monitor_ticks, ash_tokens, hoarding_offenses,
                   under_investigation, carried, ground, investigations, robots,
                   shelf_owner, calls, sessions,
                   beings>>

\* CmdDisplay.func for one of the caller's plain items.  The record keeps
\* the shelf (amount) and what stood on it before (count).
CmdDisplayPlain(caller, shelf) ==
    /\ valid[caller]
    /\ IF \/ shelf_owner[shelf] # caller
          \/ carried[caller] = 0
          \/ shelf_load(shelf) >= SHELF_CAPACITY
       THEN UNCHANGED <<carried, shelved, last>>
       ELSE /\ carried' = [carried EXCEPT ![caller] = @ - 1]
            /\ shelved' = [shelved EXCEPT ![shelf] = @ + 1]
            /\ last' = [Snapshot("display", caller, caller, "placed", shelf)
                           EXCEPT !.count = shelf_load(shelf)]
    /\ UNCHANGED <<station_ash_pool, monitor_ticks, ash_tokens, hoarding_offenses,
                   under_investigation, ground, investigations, robots, objects,
                   shelf_owner, calls, sessions, valid, located, temple,
                   server_scripts, shop_listed>>

\* CmdRetrieve.func for a plain item on the shelf.
CmdRetrievePlain(caller, shelf) ==
    /\ valid[caller]
    /\ IF shelf_owner[shelf] # caller \/ shelved[shelf] = 0
       THEN UNCHANGED <<carried, shelved, last>>
       ELSE /\ carried' = [carried EXCEPT ![caller] = @ + 1]
            /\ shelved' = [shelved EXCEPT ![shelf] = @ - 1]
            /\ last' = [Snapshot("retrieve", caller, caller, "taken", shelf)
                           EXCEPT !.count = shelf_load(shelf)]
    /\ UNCHANGED <<station_ash_pool, monitor_ticks, ash_tokens, hoarding_offenses,
                   under_investigation, ground, investigations, robots, objects,
                   shelf_owner, calls, sessions, valid, located, temple,
                   server_scripts, shop_listed>>

(***************************************************************************)
(* typeclasses/shops.py: the shop counter's buy and sell commands.         *)
(***************************************************************************)
\* ShopCounter.at_object_creation
shop_type == "general"

SHOP_ACCEPTED_CATEGORIES ==
    [boutique |-> {"artwork", "garment", "base"},
     food |-> {"food", "base"},
     general |-> {"base", "garment", "book", "artwork"}]

\* shop_accepts_item(shop_type, obj)
shop_accepts_item(type, obj) ==
    IF type \notin DOMAIN SHOP_ACCEPTED_CATEGORIES THEN TRUE
    ELSE get_item_category(obj) \in SHOP_ACCEPTED_CATEGORIES[type]

\* What the database query of _count_category finds for the category.
Found(category) ==
    LET Has(obj) ==
            CASE category = "cursed" -> obj.cursed
              [] category = "artwork" -> obj.artwork
              [] OTHER -> Exists(obj) /\ obj.kind = category
    IN Cardinality({o \in ObjectIds : Has(objects[o])})

CmdBuy(caller, o) ==
    LET item == objects[o]
        price == get_buy_price(item, Found(get_item_category(item)))
    IN /\ AtPrompt(caller)
       /\ IF ~InShop(item) \/ ash_tokens[caller] < price
          THEN \* not in stock / "... costs N ash but you only have M."
               UNCHANGED <<station_ash_pool, ash_tokens, objects, last>>
          ELSE /\ ash_tokens' = [ash_tokens EXCEPT ![caller] = @ - price]
               /\ station_ash_pool' = credit_station_pool(station_ash_pool, price)
               /\ objects' = [objects EXCEPT ![o].place = "inventory",
                                             ![o].holder = caller]
               /\ last' = Snapshot("buy", caller, caller, "bought", price)
       /\ UNCHANGED <<monitor_ticks, hoarding_offenses, under_investigation,
                      carried, ground, investigations, robots, shelf_owner, calls, sessions,
                   beings>>

\* CmdSell.func at a counter whose db.shop_type is `type`.
CmdSellAt(type, caller, o) ==
    LET item == objects[o]
        price == get_sell_price(item, Found(get_item_category(item)))
        debit == debit_station_pool(station_ash_pool, price)
        Record(result) ==
            [ItemSnapshot("sell", caller, result, price, o) EXCEPT !.shop = type]
    IN /\ AtPrompt(caller)
       /\ IF ~InInventory(item, caller)
          THEN \* search() finds nothing in the caller's inventory
               UNCHANGED <<station_ash_pool, ash_tokens, objects, last>>
          ELSE IF ~shop_accepts_item(type, item)
          THEN \* "This shop doesn't deal in that kind of item."
               /\ last' = Record("declined")
               /\ UNCHANGED <<station_ash_pool, ash_tokens, objects>>
          ELSE IF ~debit.ok
          THEN \* "The station coffers are empty -- it can't afford to buy ..."
               /\ last' = Record("refused")
               /\ UNCHANGED <<station_ash_pool, ash_tokens, objects>>
          ELSE /\ station_ash_pool' = debit.pool
               /\ ash_tokens' = [ash_tokens EXCEPT ![caller] = @ + price]
               /\ objects' = [objects EXCEPT ![o].place = "shop",
                                             ![o].holder = Nobody]
               /\ last' = Record("sold")
       /\ UNCHANGED <<monitor_ticks, hoarding_offenses, under_investigation,
                      carried, ground, investigations, robots, shelf_owner, calls, sessions,
                   beings>>

\* The sell command of the counter ShopCounter.at_object_creation sets up.
CmdSell(caller, o) == CmdSellAt(shop_type, caller, o)

(***************************************************************************)
(* typeclasses/shops.py: ShopCounter.restock, called for every counter by  *)
(* ShopRestockScript.at_repeat.  One counter, holding plain items.         *)
(***************************************************************************)
\* A restock that adds SHOP_RESTOCK_COUNT items whatever the stock.
restock_needed_uncapped(current) == SHOP_RESTOCK_COUNT

\* "needed = min(count, max_inv - len(current))"
restock_needed(current) ==
    Min(SHOP_RESTOCK_COUNT, SHOP_MAX_INVENTORY - current)

\* "now - obj.db.shop_listed_at > ttl"
stale(age) == age * SHOP_RESTOCK_INTERVAL > SHOP_ITEM_TTL

\* What restock() leaves on the counter: the stale items deleted, then the
\* new ones listed at the present time.
restock(listed) ==
    LET kept == [age \in Ages |-> IF stale(age) THEN 0 ELSE listed[age]]
        current == SumListed(kept, Ages)
        needed == restock_needed(current)
    IN IF current >= SHOP_MAX_INVENTORY \/ needed <= 0
       THEN kept
       ELSE [kept EXCEPT ![0] = @ + needed]

\* ShopRestockScript.at_repeat: shop.restock() for the counter.
ShopRestockRepeat ==
    /\ server_scripts.shop_restock > 0
    /\ \A o \in ObjectIds : ~InShop(objects[o])
    /\ shop_listed' = restock(shop_listed)
    /\ last' = [Snapshot("restock", Nobody, Nobody, "done",
                         SumListed(shop_listed', Ages))
                   EXCEPT !.count = SumListed(shop_listed, Ages)]
    /\ UNCHANGED <<station_ash_pool, monitor_ticks, ash_tokens, hoarding_offenses,
                   under_investigation, carried, ground, investigations, robots,
                   objects, shelf_owner, calls, sessions, valid, located,
                   temple, shelved, server_scripts>>

\* One restock interval goes by: time.time() moves on, every listing is
\* that much older.
TimePasses ==
    LET oldest == SHOP_ITEM_TTL \div SHOP_RESTOCK_INTERVAL + 1
    IN /\ shop_listed # NothingListed
       /\ shop_listed' = [age \in Ages |->
                             IF age = 0 THEN 0
                             ELSE IF age = oldest
                                  THEN shop_listed[oldest] + shop_listed[oldest - 1]
                             ELSE shop_listed[age - 1]]
       /\ last' = Snapshot("time", Nobody, Nobody, "passed", SHOP_RESTOCK_INTERVAL)
       /\ UNCHANGED <<station_ash_pool, monitor_ticks, ash_tokens,
                      hoarding_offenses, under_investigation, carried, ground,
                      investigations, robots, objects, shelf_owner, calls,
                      sessions, valid, located, temple, shelved, server_scripts>>

(***************************************************************************)
(* typeclasses/objects.py: CmdBurn.func moves what the caller carries into *)
(* the incinerator; Incinerator.at_object_receive rewards the citizen the  *)
(* object came from and deletes the object.                                *)
(***************************************************************************)
\* The reward at_object_receive computes for the object.
ash_reward(obj) ==
    IF obj.cursed THEN ASH_REWARD_CURSED
    ELSE IF obj.artwork THEN ASH_REWARD_ARTWORK
    ELSE ASH_REWARD_NORMAL

CmdBurn(caller, o) ==
    LET item == objects[o]
        ash == ash_reward(item)
    IN /\ AtPrompt(caller)
       /\ InInventory(item, caller)
       /\ ash_tokens' = [ash_tokens EXCEPT ![caller] = @ + ash]
       /\ objects' = [objects EXCEPT ![o] = Absent]
       /\ last' = ItemSnapshot("burn", caller, "burned", ash, o)
       /\ UNCHANGED <<station_ash_pool, monitor_ticks, hoarding_offenses,
                      under_investigation, carried, ground, investigations,
                      robots, shelf_owner, calls, sessions,
                   beings>>

(***************************************************************************)
(* typeclasses/objects.py: CmdUseItemator.func, the command of the         *)
(* Itemator and of the MaterialWomb, which differ in generate_item().      *)
(***************************************************************************)
\* What generate_item() can return: a talisman, a masterpiece or a cursed
\* artwork from the Itemator, a raw material from the MaterialWomb.
generate_item(womb) ==
    IF womb = "MaterialWomb"
    THEN {Carried(Nobody, "base", FALSE, FALSE, TRUE)}
    ELSE {Carried(Nobody, "base", FALSE, FALSE, FALSE),
          Carried(Nobody, "base", FALSE, TRUE, FALSE),
          Carried(Nobody, "base", TRUE, TRUE, FALSE)}

Wombs == {"Itemator", "MaterialWomb"}

\* The object ids spawn() can still hand out.
FreeIds == {o \in ObjectIds : ~Exists(objects[o])}

CmdUseItemator(caller, womb, proto) ==
    LET level == get_danger_level(get_item_count, ZONE_ITEM_LIMIT)
        cost == ITEMATOR_COST
        ash == ash_tokens[caller]
        new_obj == CHOOSE o \in FreeIds : \A other \in FreeIds : o <= other
    IN /\ AtPrompt(caller)
       /\ proto \in generate_item(womb)
       /\ IF level = LEVEL_SINKING
          THEN \* sinking_message()
               /\ last' = ItemSnapshot("use", caller, "sinking", 0, 0)
               /\ UNCHANGED <<ash_tokens, objects>>
          ELSE IF ash < cost
          THEN \* "The womb needs feedstock to fabricate ..."
               /\ last' = ItemSnapshot("use", caller, "no_ash", 0, 0)
               /\ UNCHANGED <<ash_tokens, objects>>
          ELSE /\ FreeIds # {}
               /\ ash_tokens' = [ash_tokens EXCEPT ![caller] = ash - cost]
               /\ objects' = [objects EXCEPT
                                 ![new_obj] = [proto EXCEPT !.place = "room"]]
               /\ last' = ItemSnapshot("use", caller, "spawned", cost, new_obj)
       /\ UNCHANGED <<station_ash_pool, monitor_ticks, hoarding_offenses,
                      under_investigation, carried, ground, investigations,
                      robots, shelf_owner, calls, sessions,
                   beings>>

(***************************************************************************)
(* typeclasses/objects.py: CmdCombine, the workbench.  Two raw materials   *)
(* from the caller's inventory become one finished item in the room.       *)
(***************************************************************************)
\* What craft_item() can return: a finished item from one of the generators
\* (a talisman, garment or book, a masterpiece, a cursed artwork, or food).
craft_item ==
    generate_item("Itemator") \cup {Carried(Nobody, "food", FALSE, FALSE, FALSE)}

\* A workbench that takes anything for a raw material.
is_raw_material_any(obj) == TRUE

\* CmdCombine.func: mat.db.material
is_raw_material(obj) == obj.material

CmdCombine(caller, mat1, mat2, proto) ==
    LET level == get_danger_level(get_item_count, ZONE_ITEM_LIMIT)
        new_obj == CHOOSE o \in FreeIds : \A other \in FreeIds : o <= other
        refusal ==
            IF ~is_raw_material(objects[mat1]) \/ ~is_raw_material(objects[mat2])
            THEN "not_material"
            ELSE IF mat1 = mat2 THEN "same"
            ELSE IF level = LEVEL_SINKING THEN "sinking"
            ELSE "none"
    IN /\ AtPrompt(caller)
       /\ valid[caller]
       /\ InInventory(objects[mat1], caller)
       /\ InInventory(objects[mat2], caller)
       /\ proto \in craft_item
       /\ IF refusal # "none"
          THEN \* "... is not a raw material." / "You need two different
               \* materials." / "The workbench shudders. ..."
               /\ last' = [ItemSnapshot("combine", caller, refusal, mat1, 0)
                              EXCEPT !.count = mat2]
               /\ UNCHANGED objects
          ELSE /\ FreeIds # {}
               /\ objects' = [objects EXCEPT
                                 ![new_obj] = [proto EXCEPT !.place = "room"],
                                 ![mat1] = Absent,
                                 ![mat2] = Absent]
               /\ last' = [ItemSnapshot("combine", caller, "crafted", mat1, new_obj)
                              EXCEPT !.count = mat2]
       /\ UNCHANGED <<station_ash_pool, monitor_ticks, ash_tokens,
                      hoarding_offenses, under_investigation, carried, ground,
                      investigations, robots, shelf_owner, calls, sessions,
                      beings>>

(***************************************************************************)
(* commands/command.py: gifts.  CmdGift holds the item in limbo, notes the *)
(* offer on the recipient and starts a 60 s timer that carries only the    *)
(* recipient's id; accept and reject clear the offer and leave the timer.  *)
(***************************************************************************)
GiftPending(char) == pending_gift[char] # NoGift

CmdGift(caller, target, o) ==
    LET item == objects[o]
    IN /\ InInventory(item, caller)
       /\ target # caller
       /\ IF GiftPending(target)
          THEN \* "... already has a gift offer pending."
               UNCHANGED <<objects, pending_gift, gift_timers, last>>
          ELSE /\ Len(gift_timers[target]) < MaxGiftTimers
               /\ objects' = [objects EXCEPT
                                 ![o].place = "limbo",
                                 ![o].holder = Nobody,
                                 ![o].displayed = FALSE,
                                 ![o].weight_fraction =
                                     IF item.original_weight_fraction # Unset
                                     THEN item.original_weight_fraction
                                     ELSE @,
                                 ![o].original_weight_fraction = Unset]
               /\ pending_gift' = [pending_gift EXCEPT
                                      ![target] = [item |-> o, from |-> caller,
                                                   age |-> 0]]
               /\ gift_timers' = [gift_timers EXCEPT
                                     ![target] = Append(@, GIFT_TIMEOUT)]
               /\ last' = [ItemSnapshot("gift", caller, "offered", 0, o)
                               EXCEPT !.target = target]
       /\ UNCHANGED <<station_ash_pool, monitor_ticks, ash_tokens,
                      hoarding_offenses, under_investigation, carried, ground,
                      investigations, robots, shelf_owner, calls, shop_menu,
                   beings>>

CmdAcceptGift(caller) ==
    LET pending == pending_gift[caller]
    IN /\ GiftPending(caller)
       /\ pending_gift' = [pending_gift EXCEPT ![caller] = NoGift]
       /\ IF ~Exists(objects[pending.item])
          THEN \* "The offered item no longer exists."
               UNCHANGED <<objects, last>>
          ELSE /\ objects' = [objects EXCEPT
                                 ![pending.item].place = "inventory",
                                 ![pending.item].holder = caller]
               /\ last' = ItemSnapshot("accept", caller, "accepted",
                                       pending.age, pending.item)
       /\ UNCHANGED <<station_ash_pool, monitor_ticks, ash_tokens,
                      hoarding_offenses, under_investigation, carried, ground,
                      investigations, robots, shelf_owner, calls, shop_menu,
                      gift_timers,
                   beings>>

CmdRejectGift(caller) ==
    LET pending == pending_gift[caller]
    IN /\ GiftPending(caller)
       /\ pending_gift' = [pending_gift EXCEPT ![caller] = NoGift]
       /\ IF ~Exists(objects[pending.item])
          THEN \* "The offered item no longer exists."
               UNCHANGED <<objects, last>>
          ELSE \* back to the giver
               /\ objects' = [objects EXCEPT
                                 ![pending.item].place = "inventory",
                                 ![pending.item].holder = pending.from]
               /\ last' = ItemSnapshot("reject", caller, "returned",
                                       pending.age, pending.item)
       /\ UNCHANGED <<station_ash_pool, monitor_ticks, ash_tokens,
                      hoarding_offenses, under_investigation, carried, ground,
                      investigations, robots, shelf_owner, calls, shop_menu,
                      gift_timers,
                   beings>>

\* _auto_accept_gift(target_id): the k-th timer started for the target is due.
AutoAcceptGift(target, k) ==
    LET pending == pending_gift[target]
    IN /\ k \in DOMAIN gift_timers[target]
       /\ gift_timers[target][k] = 0
       /\ gift_timers' = [gift_timers EXCEPT ![target] = RemoveAt(@, k)]
       /\ IF ~GiftPending(target)
          THEN UNCHANGED <<objects, pending_gift, last>>
          ELSE IF ~Exists(objects[pending.item])
          THEN /\ pending_gift' = [pending_gift EXCEPT ![target] = NoGift]
               /\ UNCHANGED <<objects, last>>
          ELSE /\ objects' = [objects EXCEPT
                                 ![pending.item].place = "inventory",
                                 ![pending.item].holder = target]
               /\ pending_gift' = [pending_gift EXCEPT ![target] = NoGift]
               /\ last' = ItemSnapshot("auto_accept", target, "accepted",
                                       pending.age, pending.item)
       /\ UNCHANGED <<station_ash_pool, monitor_ticks, ash_tokens,
                      hoarding_offenses, under_investigation, carried, ground,
                      investigations, robots, shelf_owner, calls, shop_menu,
                   beings>>

\* Any one due timer of the target fires.
GiftTimerFires(target) ==
    \E k \in DOMAIN gift_timers[target] : AutoAcceptGift(target, k)

\* The step by which the clock moves: half the timeout.
ClockStep == GIFT_TIMEOUT \div 2

\* Time passes, up to the moment the next timer is due.
AdvanceClock ==
    /\ \E c \in Citizens : gift_timers[c] # <<>>
    /\ \A c \in Citizens : \A k \in DOMAIN gift_timers[c] :
          gift_timers[c][k] >= ClockStep
    /\ gift_timers' = [c \in Citizens |->
                          [k \in DOMAIN gift_timers[c] |->
                              gift_timers[c][k] - ClockStep]]
    /\ pending_gift' = [c \in Citizens |->
                           IF GiftPending(c)
                           THEN [pending_gift[c] EXCEPT
                                    !.age = Min(@ + ClockStep, GIFT_TIMEOUT)]
                           ELSE NoGift]
    /\ UNCHANGED <<station_ash_pool, monitor_ticks, ash_tokens,
                   hoarding_offenses, under_investigation, carried, ground,
                   investigations, robots, objects, shelf_owner, calls,
                   shop_menu, last,
                   beings>>

(***************************************************************************)
(* typeclasses/shops.py: selling through the shop menu.  node_sell_list    *)
(* prices what the caller carries, node_sell_confirm offers "yes" only     *)
(* while the pool covers the price, and _do_sell runs when the caller      *)
(* answers, with the price that was quoted.  While the menu waits, the     *)
(* caller's input goes to the menu, not to the command handlers.           *)
(***************************************************************************)
NodeSellConfirm(caller, o) ==
    LET item == objects[o]
        price == get_sell_price(item, Found(get_item_category(item)))
    IN /\ AtPrompt(caller)
       /\ InInventory(item, caller)
       /\ shop_accepts_item(shop_type, item)
       /\ station_ash_pool >= price
       /\ shop_menu' = [shop_menu EXCEPT
                           ![caller] = [node |-> "sell_confirm", item |-> o,
                                        price |-> price]]
       /\ UNCHANGED <<station_ash_pool, monitor_ticks, ash_tokens,
                      hoarding_offenses, under_investigation, carried, ground,
                      investigations, robots, objects, shelf_owner, calls, gifts, last,
                   beings>>

\* The caller answers "n": back to the list.
NodeSellBack(caller) ==
    /\ shop_menu[caller].node = "sell_confirm"
    /\ shop_menu' = [shop_menu EXCEPT ![caller] = NoSale]
    /\ UNCHANGED <<station_ash_pool, monitor_ticks, ash_tokens,
                   hoarding_offenses, under_investigation, carried, ground,
                   investigations, robots, objects, shelf_owner, calls, gifts, last,
                   beings>>

\* The caller answers "y": _do_sell(caller, item_id, price).
DoSell(caller) ==
    LET o == shop_menu[caller].item
        price == shop_menu[caller].price
        debit == debit_station_pool(station_ash_pool, price)
    IN /\ shop_menu[caller].node = "sell_confirm"
       /\ shop_menu' = [shop_menu EXCEPT ![caller] = NoSale]
       /\ IF ~Exists(objects[o])
          THEN \* "That item is gone."
               UNCHANGED <<station_ash_pool, ash_tokens, objects, last>>
          ELSE IF ~debit.ok
          THEN \* "The station coffers are empty."
               /\ last' = ItemSnapshot("do_sell", caller, "refused", price, o)
               /\ UNCHANGED <<station_ash_pool, ash_tokens, objects>>
          ELSE /\ station_ash_pool' = debit.pool
               /\ ash_tokens' = [ash_tokens EXCEPT ![caller] = @ + price]
               /\ objects' = [objects EXCEPT ![o].place = "shop",
                                             ![o].holder = Nobody]
               /\ last' = ItemSnapshot("do_sell", caller, "sold", price, o)
       /\ UNCHANGED <<monitor_ticks, hoarding_offenses, under_investigation,
                      carried, ground, investigations, robots, shelf_owner, calls,
                      gifts,
                   beings>>

(***************************************************************************)
(* typeclasses/shops.py: buying through the shop menu.  node_shopfront     *)
(* offers what get_stock() returns, node_buy_confirm keeps the item's id   *)
(* and the price quoted and offers "yes" while the caller can pay, and     *)
(* _do_buy runs when the caller answers: it looks the item up by its id,   *)
(* wherever the item is by then.  The record keeps whom the item was       *)
(* taken from (target; Nobody for the shop's stock).                       *)
(***************************************************************************)
NodeBuyConfirm(caller, o) ==
    LET item == objects[o]
        price == get_buy_price(item, Found(get_item_category(item)))
    IN /\ AtPrompt(caller)
       /\ InShop(item)
       /\ ash_tokens[caller] >= price
       /\ shop_menu' = [shop_menu EXCEPT
                           ![caller] = [node |-> "buy_confirm", item |-> o,
                                        price |-> price]]
       /\ UNCHANGED <<station_ash_pool, monitor_ticks, ash_tokens,
                      hoarding_offenses, under_investigation, carried, ground,
                      investigations, robots, objects, shelf_owner, calls,
                      gifts, last, beings>>

\* The caller answers "n": back to the shop front.
NodeBuyBack(caller) ==
    /\ shop_menu[caller].node = "buy_confirm"
    /\ shop_menu' = [shop_menu EXCEPT ![caller] = NoSale]
    /\ UNCHANGED <<station_ash_pool, monitor_ticks, ash_tokens,
                   hoarding_offenses, under_investigation, carried, ground,
                   investigations, robots, objects, shelf_owner, calls,
                   gifts, last, beings>>

\* The caller answers "y": _do_buy(caller, item_id, price).
DoBuy(caller) ==
    LET o == shop_menu[caller].item
        price == shop_menu[caller].price
    IN /\ shop_menu[caller].node = "buy_confirm"
       /\ shop_menu' = [shop_menu EXCEPT ![caller] = NoSale]
       /\ IF ~Exists(objects[o]) \/ ash_tokens[caller] < price
          THEN \* "That item vanished ..." / "You can't afford that."
               UNCHANGED <<station_ash_pool, ash_tokens, objects, last>>
          ELSE /\ ash_tokens' = [ash_tokens EXCEPT ![caller] = @ - price]
               /\ station_ash_pool' = credit_station_pool(station_ash_pool, price)
               /\ objects' = [objects EXCEPT ![o].place = "inventory",
                                             ![o].holder = caller]
               /\ last' = [ItemSnapshot("do_buy", caller, "bought", price, o)
                              EXCEPT !.target = objects[o].holder]
       /\ UNCHANGED <<monitor_ticks, hoarding_offenses, under_investigation,
                      carried, ground, investigations, robots, shelf_owner,
                      calls, gifts, beings>>

(***************************************************************************)
(* typeclasses/scripts.py: ItemMonitorScript.at_repeat, every 180 s: the   *)
(* danger level is recomputed and cached, and the pool is recharged.  The  *)
(* broadcast that follows changes no state; the record keeps the level     *)
(* whose message went out, or "none".                                      *)
(***************************************************************************)
\* should_broadcast, for the level just computed and the level cached before.
should_broadcast(level, old_level) ==
    IF level # old_level /\ level # "safe" THEN TRUE
    ELSE level \in {"critical", "sinking"}

ItemMonitorTick ==
    /\ monitor_ticks < MaxMonitorTicks
    /\ monitor_ticks' = monitor_ticks + 1
    /\ LET count == get_item_count
       IN danger' = [limit |-> ZONE_ITEM_LIMIT, count |-> count,
                     level |-> get_danger_level(count, ZONE_ITEM_LIMIT),
                     prev_count |-> danger.count, prev_level |-> danger.level,
                     broadcast |->
                         LET level == get_danger_level(count, ZONE_ITEM_LIMIT)
                         IN IF should_broadcast(level, danger.level)
                            THEN level ELSE "none"]
    /\ station_ash_pool' =
           IF STATION_ASH_RECHARGE > 0
           THEN credit_station_pool(station_ash_pool, STATION_ASH_RECHARGE)
           ELSE station_ash_pool
    /\ last' = Snapshot("monitor", Nobody, Nobody, "recharged", STATION_ASH_RECHARGE)
    /\ UNCHANGED <<ash_tokens, hoarding_offenses, under_investigation, carried,
                   ground, investigations, robots, objects, shelf_owner, quote,
                   sessions,
                   beings>>

(***************************************************************************)
(* world/economy.py called directly: credit_station_pool(amount) and       *)
(* debit_station_pool(amount); the record keeps the value returned.        *)
(***************************************************************************)
CreditStationPool(amount) ==
    /\ station_ash_pool' = credit_station_pool(station_ash_pool, amount)
    /\ last' = Snapshot("credit", Nobody, Nobody, "done", amount)
    /\ UNCHANGED <<monitor_ticks, ash_tokens, hoarding_offenses,
                   under_investigation, carried, ground, investigations, robots,
                   objects, shelf_owner, calls, sessions,
                   beings>>

DebitStationPool(amount) ==
    LET debit == debit_station_pool(station_ash_pool, amount)
    IN /\ station_ash_pool' = debit.pool
       /\ last' = Snapshot("debit", Nobody, Nobody,
                           IF debit.ok THEN "ok" ELSE "failed", amount)
       /\ UNCHANGED <<monitor_ticks, ash_tokens, hoarding_offenses,
                      under_investigation, carried, ground, investigations,
                      robots, objects, shelf_owner, calls, sessions,
                   beings>>

(***************************************************************************)
(* world/zone_monitor.py and world/economy.py called directly:             *)
(* get_danger_level(count), and get_buy_price / get_sell_price of an item. *)
(***************************************************************************)
GetDangerLevel(count) ==
    /\ danger' = [danger EXCEPT !.count = count,
                                !.level = get_danger_level(count, danger.limit),
                                !.prev_count = danger.count,
                                !.prev_level = danger.level]
    /\ UNCHANGED <<station_ash_pool, monitor_ticks, ash_tokens, hoarding_offenses,
                   under_investigation, carried, ground, investigations, robots,
                   objects, shelf_owner, quote, sessions, last,
                   beings>>

GetPrices ==
    /\ ~quote.asked
    /\ quote' = [quote EXCEPT !.asked = TRUE,
                              !.multiplier =
                                  scarcity_multiplier(
                                      get_item_category(quote.item), quote.found),
                              !.buy = get_buy_price(quote.item, quote.found),
                              !.sell = get_sell_price(quote.item, quote.found)]
    /\ UNCHANGED <<station_ash_pool, monitor_ticks, ash_tokens, hoarding_offenses,
                   under_investigation, carried, ground, investigations, robots,
                   objects, shelf_owner, danger, sessions, last,
                   beings>>

\* credit_station_pool(amount) and then debit_station_pool(amount), called
\* one after the other by the same handler.
CreditThenDebit(amount) ==
    LET credited == credit_station_pool(station_ash_pool, amount)
        debit == debit_station_pool(credited, amount)
    IN /\ station_ash_pool' = debit.pool
       /\ last' = Snapshot("credit_debit", Nobody, Nobody,
                           IF debit.ok THEN "ok" ELSE "failed", amount)
       /\ UNCHANGED <<monitor_ticks, ash_tokens, hoarding_offenses,
                      under_investigation, carried, ground, investigations,
                      robots, objects, shelf_owner, calls, sessions,
                   beings>>

(***************************************************************************)
(* The enforcement specification: reports, investigation timers and robot  *)
(* timers over a world whose citizens already carry their items.           *)
(***************************************************************************)
\* Item loads around the two thresholds.
ItemLoads ==
    {HOARDING_MINOR_THRESHOLD - 1, HOARDING_MINOR_THRESHOLD,
     HOARDING_MAJOR_THRESHOLD - 1, HOARDING_MAJOR_THRESHOLD}

\* Pool values the station can hold: as set at server start, and near the cap.
PoolStarts ==
    {STATION_INITIAL_ASH_POOL, STATION_MAX_ASH_POOL - 10, STATION_MAX_ASH_POOL}

NoObservation ==
    [op |-> "none", caller |-> Nobody, target |-> Nobody, result |-> "none",
     amount |-> 0, pool |-> 0, ash |-> 0, offenses |-> 0, flagged |-> FALSE,
     count |-> 0, scripts |-> 0, ticks |-> 0, reporters |-> {}, item |-> 0,
     shop |-> "none", phase |-> "none"]

Init ==
    /\ station_ash_pool \in PoolStarts
    /\ monitor_ticks = 0
    /\ ash_tokens = [c \in Citizens |-> 0]
    /\ hoarding_offenses = [c \in Citizens |-> 0]
    /\ under_investigation = [c \in Citizens |-> FALSE]
    /\ \E load \in ItemLoads :
           carried = [c \in Citizens |-> IF c = 1 THEN load ELSE 0]
    /\ ground = GroundItems
    /\ investigations = [c \in Citizens |-> <<>>]
    /\ robots = [c \in Citizens |-> <<>>]
    /\ objects = NoObjects
    /\ shelf_owner = [shelf \in Shelves |-> Nobody]
    /\ shop_menu = [c \in Citizens |-> NoSale]
    /\ pending_gift = [c \in Citizens |-> NoGift]
    /\ gift_timers = [c \in Citizens |-> <<>>]
    /\ valid = [c \in Citizens |-> TRUE]
    /\ located = [c \in Citizens |-> TRUE]
    /\ temple = TRUE
    /\ shelved = [shelf \in Shelves |-> 0]
    /\ server_scripts = Started
    /\ shop_listed = NothingListed
    /\ danger = NoDanger
    /\ quote = NoQuote
    /\ last = NoObservation

Next ==
    \/ \E caller \in Citizens, target \in Citizens : Report(caller, target)
    \/ \E caller \in Citizens : GetAll(caller)
    \/ \E target \in Citizens : InvestigationTick(target)
    \/ \E target \in Citizens : RobotTick(target)

Spec == Init /\ [][Next]_vars

(***************************************************************************)
(* The state right after at_server_start on a fresh database, before any   *)
(* object exists: what the other specifications start from.                *)
(***************************************************************************)
AtServerStart ==
    /\ station_ash_pool = STATION_INITIAL_ASH_POOL
    /\ monitor_ticks = 0
    /\ hoarding_offenses = [c \in Citizens |-> 0]
    /\ under_investigation = [c \in Citizens |-> FALSE]
    /\ investigations = [c \in Citizens |-> <<>>]
    /\ robots = [c \in Citizens |-> <<>>]
    /\ shelf_owner = [shelf \in Shelves |-> Nobody]
    /\ shop_menu = [c \in Citizens |-> NoSale]
    /\ pending_gift = [c \in Citizens |-> NoGift]
    /\ gift_timers = [c \in Citizens |-> <<>>]
    /\ valid = [c \in Citizens |-> TRUE]
    /\ located = [c \in Citizens |-> TRUE]
    /\ temple = TRUE
    /\ shelved = [shelf \in Shelves |-> 0]
    /\ server_scripts = Started
    /\ shop_listed = NothingListed
    /\ ground = 0
    /\ last = NoObservation

(***************************************************************************)
(* server/conf/at_server_startstop.py: at_server_start, run at every start *)
(* and reload of the server.                                               *)
(***************************************************************************)
\* A start that takes an empty pool for a pool that was never set.
pool_never_set_or_empty(pool) == pool = Unset \/ pool = 0

\* "monitor.db.station_ash_pool is None"
pool_never_set(pool) == pool = Unset

\* ScriptDB.objects.filter(db_key=key).exists(), and create_script if not.
ensure_script(count) == IF count = 0 THEN 1 ELSE count

at_server_start ==
    /\ server_scripts' = [key \in DOMAIN server_scripts |->
                             ensure_script(server_scripts[key])]
    /\ station_ash_pool' =
           IF server_scripts'.item_monitor > 0 /\ pool_never_set(station_ash_pool)
           THEN STATION_INITIAL_ASH_POOL
           ELSE station_ash_pool
    /\ last' = Snapshot("start", Nobody, Nobody, "done",
                        server_scripts.item_monitor + server_scripts.shop_restock)
    /\ UNCHANGED <<monitor_ticks, ash_tokens, hoarding_offenses,
                   under_investigation, carried, ground, investigations, robots,
                   objects, shelf_owner, calls, sessions, valid, located,
                   temple, shelved, shop_listed>>

\* A database on which the server was never started: no global script, no
\* pool; the server starts, and once it runs the pool is credited and
\* debited, and it is started again at any point.
StartAmounts == {100, 250, STATION_INITIAL_ASH_POOL}

InitStart ==
    /\ station_ash_pool = Unset
    /\ server_scripts = FreshDatabase
    /\ shop_listed = NothingListed
    /\ monitor_ticks = 0
    /\ ash_tokens = [c \in Citizens |-> 0]
    /\ hoarding_offenses = [c \in Citizens |-> 0]
    /\ under_investigation = [c \in Citizens |-> FALSE]
    /\ carried = [c \in Citizens |-> 0]
    /\ ground = 0
    /\ investigations = [c \in Citizens |-> <<>>]
    /\ robots = [c \in Citizens |-> <<>>]
    /\ objects = NoObjects
    /\ shelf_owner = [shelf \in Shelves |-> Nobody]
    /\ danger = NoDanger
    /\ quote = NoQuote
    /\ shop_menu = [c \in Citizens |-> NoSale]
    /\ pending_gift = [c \in Citizens |-> NoGift]
    /\ gift_timers = [c \in Citizens |-> <<>>]
    /\ valid = [c \in Citizens |-> TRUE]
    /\ located = [c \in Citizens |-> TRUE]
    /\ temple = TRUE
    /\ shelved = [shelf \in Shelves |-> 0]
    /\ last = NoObservation

\* The pool functions run in a started server only.
NextStart ==
    \/ at_server_start
    \/ /\ server_scripts.item_monitor > 0
       /\ \E amount \in StartAmounts : CreditStationPool(amount)
    \/ /\ server_scripts.item_monitor > 0
       /\ \E amount \in StartAmounts : DebitStationPool(amount)

SpecStart == InitStart /\ [][NextStart]_vars

(***************************************************************************)
(* The counter's stock: nothing, or what citizens have sold to it at two   *)
(* times, up to one item more than SHOP_MAX_INVENTORY (CmdSell has no      *)
(* limit); then time passes and the restock script runs, in any order.     *)
(***************************************************************************)
InitRestock ==
    /\ station_ash_pool = STATION_INITIAL_ASH_POOL
    /\ monitor_ticks = 0
    /\ ash_tokens = [c \in Citizens |-> 0]
    /\ hoarding_offenses = [c \in Citizens |-> 0]
    /\ under_investigation = [c \in Citizens |-> FALSE]
    /\ carried = [c \in Citizens |-> 0]
    /\ ground = 0
    /\ investigations = [c \in Citizens |-> <<>>]
    /\ robots = [c \in Citizens |-> <<>>]
    /\ objects = NoObjects
    /\ shelf_owner = [shelf \in Shelves |-> Nobody]
    /\ danger = NoDanger
    /\ quote = NoQuote
    /\ shop_menu = [c \in Citizens |-> NoSale]
    /\ pending_gift = [c \in Citizens |-> NoGift]
    /\ gift_timers = [c \in Citizens |-> <<>>]
    /\ valid = [c \in Citizens |-> TRUE]
    /\ located = [c \in Citizens |-> TRUE]
    /\ temple = TRUE
    /\ shelved = [shelf \in Shelves |-> 0]
    /\ server_scripts = Started
    /\ \E early, late \in Ages :
          \E sold_early \in 0 .. SHOP_MAX_INVENTORY + 1 :
             \E sold_late \in 0 .. SHOP_MAX_INVENTORY + 1 - sold_early :
                /\ early > late
                /\ shop_listed = [NothingListed EXCEPT ![early] = sold_early,
                                                       ![late] = sold_late]
    /\ last = NoObservation

NextRestock ==
    \/ ShopRestockRepeat
    \/ TimePasses

SpecRestock == InitRestock /\ [][NextRestock]_vars

(***************************************************************************)
(* The danger classifier applied to counts around every threshold, for     *)
(* small limits and for the limit of the settings.                         *)
(***************************************************************************)
DangerLimits == {0, 1, 4, 20, ZONE_ITEM_LIMIT}

DangerCounts ==
    (0 .. MaxCount)
    \cup {(THRESHOLDS[l] * ZONE_ITEM_LIMIT) \div 100 + d :
              l \in DOMAIN THRESHOLDS, d \in {-1, 0, 1}}

InitDanger ==
    /\ AtServerStart
    /\ ash_tokens = [c \in Citizens |-> 0]
    /\ carried = [c \in Citizens |-> 0]
    /\ objects = NoObjects
    /\ quote = NoQuote
    /\ \E limit \in DangerLimits : danger = [NoDanger EXCEPT !.limit = limit]

NextDanger == \E count \in DangerCounts : GetDangerLevel(count)

SpecDanger == InitDanger /\ [][NextDanger]_vars

(***************************************************************************)
(* The pricing functions applied to an item of every category, for every   *)
(* number of objects the category's query can find.                        *)
(***************************************************************************)
Kinds == {"garment", "food", "book", "base"}

InitPrice ==
    /\ AtServerStart
    /\ ash_tokens = [c \in Citizens |-> 0]
    /\ carried = [c \in Citizens |-> 0]
    /\ objects = NoObjects
    /\ danger = NoDanger
    /\ \E kind \in Kinds, cursed \in BOOLEAN, artwork \in BOOLEAN,
          found \in 0 .. MaxPopulation :
           quote = [NoQuote EXCEPT !.item = Carried(1, kind, cursed, artwork, FALSE),
                                   !.found = found]

NextPrice == GetPrices

SpecPrice == InitPrice /\ [][NextPrice]_vars

(***************************************************************************)
(* The weight model: citizen 1 holds regular items, masterpieces and raw   *)
(* materials; citizens claim the first shelf, display and retrieve (the    *)
(* weight of an object does not depend on which shelf it stands on).       *)
(***************************************************************************)
WeighedObjects ==
    {Carried(1, "base", FALSE, FALSE, FALSE),    \* a regular item
     Carried(1, "base", FALSE, TRUE, FALSE),     \* a masterpiece
     Carried(1, "base", FALSE, FALSE, TRUE)}     \* a raw material

InitWeight ==
    /\ AtServerStart
    /\ ash_tokens = [c \in Citizens |-> 0]
    /\ carried = [c \in Citizens |-> 0]
    /\ objects \in [ObjectIds -> WeighedObjects]
    /\ danger = NoDanger
    /\ quote = NoQuote

\* The citizens who use the shelf: the one who holds the objects and one
\* other, who can take the shelf over and retrieve what stands on it.
Curators == {1, 2}

NextWeight ==
    \/ \E caller \in Curators : CmdClaim(caller, 1)
    \/ \E caller \in Curators : CmdUnclaim(caller, 1)
    \/ \E caller \in Curators, o \in ObjectIds : CmdDisplay(caller, 1, o)
    \/ \E caller \in Curators, o \in ObjectIds : CmdRetrieve(caller, 1, o)

SpecWeight == InitWeight /\ [][NextWeight]_vars

(***************************************************************************)
(* The shelves: regular items spread over the citizens, both shelves       *)
(* claimed, filled, emptied and released in every order.                   *)
(***************************************************************************)
InitShelf ==
    /\ AtServerStart
    /\ ash_tokens = [c \in Citizens |-> 0]
    /\ carried = [c \in Citizens |-> 0]
    /\ objects = [o \in ObjectIds |->
                     Carried(IF o = 1 THEN 1 ELSE 2, "base", FALSE, FALSE, FALSE)]
    /\ danger = NoDanger
    /\ quote = NoQuote

NextShelf ==
    \/ \E caller \in Citizens, shelf \in Shelves : CmdClaim(caller, shelf)
    \/ \E caller \in Citizens, shelf \in Shelves : CmdUnclaim(caller, shelf)
    \/ \E caller \in Citizens, shelf \in Shelves, o \in ObjectIds :
           CmdDisplay(caller, shelf, o)
    \/ \E caller \in Citizens, shelf \in Shelves, o \in ObjectIds :
           CmdRetrieve(caller, shelf, o)

SpecShelf == InitShelf /\ [][NextShelf]_vars

(***************************************************************************)
(* The shelves at capacity: citizen 1 carries one plain item more than a   *)
(* shelf holds and an object, citizen 2 carries nothing; both claim, fill, *)
(* empty and release both shelves, and citizen 2 may be deleted while      *)
(* owning one.                                                             *)
(***************************************************************************)
InitCapacity ==
    /\ AtServerStart
    /\ ash_tokens = [c \in Citizens |-> 0]
    /\ carried = [c \in Citizens |-> IF c = 1 THEN SHELF_CAPACITY + 1 ELSE 0]
    /\ objects = [o \in ObjectIds |->
                     IF o = 1
                     THEN Carried(1, "base", FALSE, FALSE, FALSE)
                     ELSE Absent]
    /\ danger = NoDanger
    /\ quote = NoQuote

NextCapacity ==
    \/ \E caller \in Curators, shelf \in Shelves : CmdClaim(caller, shelf)
    \/ \E caller \in Curators, shelf \in Shelves : CmdUnclaim(caller, shelf)
    \/ \E caller \in Curators, shelf \in Shelves : CmdDisplayPlain(caller, shelf)
    \/ \E caller \in Curators, shelf \in Shelves : CmdRetrievePlain(caller, shelf)
    \/ \E caller \in Curators, shelf \in Shelves : CmdDisplay(caller, shelf, 1)
    \/ \E caller \in Curators, shelf \in Shelves : CmdRetrieve(caller, shelf, 1)
    \/ DeleteCharacter(2)

SpecCapacity == InitCapacity /\ [][NextCapacity]_vars

(***************************************************************************)
(* Display and retrieval of items that come with a weight fraction of      *)
(* their own: object 1 has none, object 2 has a material's, every other    *)
(* object has one equal to the shelf's.  Two citizens pass shelf 1 and the *)
(* objects between them.                                                   *)
(***************************************************************************)
PriorFraction(o) ==
    IF o = 1 THEN Unset
    ELSE IF o = 2 THEN MATERIAL_WEIGHT_FRACTION
    ELSE DISPLAY_WEIGHT_FRACTION

InitRoundTrip ==
    /\ AtServerStart
    /\ ash_tokens = [c \in Citizens |-> 0]
    /\ carried = [c \in Citizens |-> 0]
    /\ objects = [o \in ObjectIds |->
                     [Carried(1, "base", FALSE, FALSE, o = 2)
                         EXCEPT !.weight_fraction = PriorFraction(o)]]
    /\ danger = NoDanger
    /\ quote = NoQuote

NextRoundTrip ==
    \/ \E caller \in Curators : CmdClaim(caller, 1)
    \/ \E caller \in Curators : CmdUnclaim(caller, 1)
    \/ \E caller \in Curators, o \in ObjectIds : CmdDisplay(caller, 1, o)
    \/ \E caller \in Curators, o \in ObjectIds : CmdRetrieve(caller, 1, o)

SpecRoundTrip == InitRoundTrip /\ [][NextRoundTrip]_vars

(***************************************************************************)
(* The ledger: every operation that touches the station pool.  Citizen 1   *)
(* carries enough plain items to be fined, citizen 2 has the price of the  *)
(* one item the shop has in stock, citizen 3 carries a cursed item.        *)
(***************************************************************************)
\* Amounts for the direct calls: nothing, what the pool starts with, and
\* more than the pool can ever hold.
LedgerAmounts ==
    {0, STATION_INITIAL_ASH_POOL, STATION_MAX_ASH_POOL + STATION_INITIAL_ASH_POOL}

InitLedger ==
    /\ AtServerStart
    /\ ash_tokens = [c \in Citizens |-> IF c = 2 THEN SHOP_BASE_PRICE ELSE 0]
    /\ carried = [c \in Citizens |-> IF c = 1 THEN HOARDING_MINOR_THRESHOLD ELSE 0]
    /\ objects = [o \in ObjectIds |->
                     IF o = 1 THEN [Absent EXCEPT !.place = "shop"]
                     ELSE IF o = 2 THEN Carried(3, "base", TRUE, FALSE, FALSE)
                     ELSE Absent]
    /\ danger = NoDanger
    /\ quote = NoQuote

NextLedger ==
    \/ \E amount \in LedgerAmounts : CreditStationPool(amount)
    \/ \E amount \in LedgerAmounts : DebitStationPool(amount)
    \/ \E caller \in Citizens, o \in ObjectIds : CmdBuy(caller, o)
    \/ \E caller \in Citizens, o \in ObjectIds : CmdSell(caller, o)
    \/ \E caller \in Citizens, o \in ObjectIds : NodeSellConfirm(caller, o)
    \/ \E caller \in Citizens : NodeSellBack(caller)
    \/ \E caller \in Citizens : DoSell(caller)
    \/ \E caller \in Citizens, o \in ObjectIds : CmdBurn(caller, o)
    \/ \E caller \in Citizens, target \in Citizens : Report(caller, target)
    \/ ItemMonitorTick

SpecLedger == InitLedger /\ [][NextLedger]_vars

(***************************************************************************)
(* The wombs: citizens with no ash or with the cost of one use, on a       *)
(* platform that is empty or within two items of the limit.                *)
(***************************************************************************)
\* The load that, with the citizens' bodies, puts the count at the limit.
SinkingLoad == ZONE_ITEM_LIMIT - NumCitizens * PLAYER_BODY_WEIGHT

InitWomb ==
    /\ AtServerStart
    /\ ash_tokens \in [Citizens -> {0, ITEMATOR_COST}]
    /\ \E load \in {0, SinkingLoad - 2, SinkingLoad - 1, SinkingLoad} :
          carried = [c \in Citizens |-> IF c = 1 THEN load ELSE 0]
    /\ objects = NoObjects
    /\ danger = NoDanger
    /\ quote = NoQuote

NextWomb ==
    \E caller \in Citizens, womb \in Wombs :
        \E proto \in generate_item(womb) : CmdUseItemator(caller, womb, proto)

SpecWomb == InitWomb /\ [][NextWomb]_vars

(***************************************************************************)
(* The workbench: objects 1 and 2 are carried by citizens 1 or 2, object 1 *)
(* is a raw material and object 2 may be one; citizen 3 carries a load     *)
(* that leaves the platform empty, one short of sinking, or sinking.       *)
(***************************************************************************)
InitBench ==
    /\ AtServerStart
    /\ ash_tokens = [c \in Citizens |-> 0]
    /\ \E load \in {0, SinkingLoad - 2, SinkingLoad - 1, SinkingLoad} :
          carried = [c \in Citizens |-> IF c = 3 THEN load ELSE 0]
    /\ \E holder1, holder2 \in Curators, raw \in BOOLEAN :
          objects = [o \in ObjectIds |->
                        IF o = 1 THEN Carried(holder1, "base", FALSE, FALSE, TRUE)
                        ELSE IF o = 2
                             THEN Carried(holder2, "base", FALSE, FALSE, raw)
                        ELSE Absent]
    /\ danger = NoDanger
    /\ quote = NoQuote

NextBench ==
    \E caller \in Curators, mat1, mat2 \in ObjectIds, proto \in craft_item :
        CmdCombine(caller, mat1, mat2, proto)

SpecBench == InitBench /\ [][NextBench]_vars

(***************************************************************************)
(* The three kinds of counter: citizen 1 carries a cursed artwork, citizen *)
(* 2 a talisman, citizen 3 a cheese; every citizen has the price of the    *)
(* talisman; they sell at any counter and buy what the counters hold.      *)
(***************************************************************************)
\* The shop_type of BoutiqueCounter, FoodMarketCounter, GeneralStoreCounter.
ShopTypes == {"boutique", "food", "general"}

InitShops ==
    /\ AtServerStart
    /\ ash_tokens = [c \in Citizens |-> SHOP_BASE_PRICE]
    /\ carried = [c \in Citizens |-> 0]
    /\ objects = [o \in ObjectIds |->
                     IF o = 1 THEN Carried(1, "base", TRUE, TRUE, FALSE)
                     ELSE IF o = 2 THEN Carried(2, "base", FALSE, FALSE, FALSE)
                     ELSE IF o = 3 THEN Carried(3, "food", FALSE, FALSE, FALSE)
                     ELSE Absent]
    /\ danger = NoDanger
    /\ quote = NoQuote

NextShops ==
    \/ \E type \in ShopTypes, caller \in Citizens, o \in ObjectIds :
          CmdSellAt(type, caller, o)
    \/ \E caller \in Citizens, o \in ObjectIds : CmdBuy(caller, o)
    \/ \E caller \in Citizens, o \in ObjectIds : CmdBurn(caller, o)

SpecShops == InitShops /\ [][NextShops]_vars

(***************************************************************************)
(* Gifts: citizen 1 carries two items; citizens offer what they carry,     *)
(* accept, reject, and the timers run.                                     *)
(***************************************************************************)
InitGift ==
    /\ AtServerStart
    /\ ash_tokens = [c \in Citizens |-> 0]
    /\ carried = [c \in Citizens |-> 0]
    /\ objects = [o \in ObjectIds |->
                     IF o <= 2 THEN Carried(1, "base", FALSE, FALSE, FALSE)
                     ELSE Absent]
    /\ danger = NoDanger
    /\ quote = NoQuote

NextGift ==
    \/ \E caller \in Citizens, target \in Citizens, o \in ObjectIds :
          CmdGift(caller, target, o)
    \/ \E caller \in Citizens : CmdAcceptGift(caller)
    \/ \E caller \in Citizens : CmdRejectGift(caller)
    \/ \E target \in Citizens : GiftTimerFires(target)
    \/ AdvanceClock

SpecGift == InitGift /\ [][NextGift]_vars

(***************************************************************************)
(* The pool functions called in sequence, from pools at both ends and in   *)
(* between, with amounts that fit under the maximum and that do not.       *)
(***************************************************************************)
TripAmounts == {0, 1, STATION_INITIAL_ASH_POOL, STATION_MAX_ASH_POOL}

InitTrip ==
    /\ AtServerStart
    /\ ash_tokens = [c \in Citizens |-> 0]
    /\ carried = [c \in Citizens |-> 0]
    /\ objects = NoObjects
    /\ danger = NoDanger
    /\ quote = NoQuote

NextTrip ==
    \/ \E amount \in TripAmounts : CreditStationPool(amount)
    \/ \E amount \in TripAmounts : DebitStationPool(amount)
    \/ \E amount \in TripAmounts : CreditThenDebit(amount)

SpecTrip == InitTrip /\ [][NextTrip]_vars

(***************************************************************************)
(* The monitor: the cached level is any of the four, citizen 1 carries a   *)
(* load that puts the count next to a threshold, with one more item that   *)
(* can be burned between two ticks.                                        *)
(***************************************************************************)
Levels == {"safe", "warning", "critical", "sinking"}

\* Loads for which the count, with the citizens' bodies and the one tracked
\* item, is one below, at or one above a threshold; and no load at all.
MonitorLoads ==
    {0} \cup
    {(THRESHOLDS[l] * ZONE_ITEM_LIMIT) \div 100
         - NumCitizens * PLAYER_BODY_WEIGHT + d :
         l \in DOMAIN THRESHOLDS, d \in {-2, -1, 0}}

InitMonitor ==
    /\ AtServerStart
    /\ ash_tokens = [c \in Citizens |-> 0]
    /\ \E load \in MonitorLoads :
          carried = [c \in Citizens |-> IF c = 1 THEN load ELSE 0]
    /\ objects = [o \in ObjectIds |->
                     IF o = 1 THEN Carried(1, "base", FALSE, FALSE, FALSE)
                     ELSE Absent]
    /\ \E level \in Levels : danger = [NoDanger EXCEPT !.level = level]
    /\ quote = NoQuote

NextMonitor ==
    \/ ItemMonitorTick
    \/ \E caller \in Citizens, o \in ObjectIds : CmdBurn(caller, o)

SpecMonitor == InitMonitor /\ [][NextMonitor]_vars

(***************************************************************************)
(* Enforcement with the world changing under it: one hoarder, enough items *)
(* on the ground for a second hoard, characters that log out or are        *)
(* deleted, a robot or a temple that is destroyed.                         *)
(***************************************************************************)
\* The citizen who starts with a hoard.
Hoarder == 1

\* The characters that may be deleted: the hoarder and one who reports.
Deletable == {Hoarder, 2}

OneHoarder(lying) ==
    /\ station_ash_pool = STATION_INITIAL_ASH_POOL
    /\ monitor_ticks = 0
    /\ ash_tokens = [c \in Citizens |-> 0]
    /\ hoarding_offenses = [c \in Citizens |-> 0]
    /\ under_investigation = [c \in Citizens |-> FALSE]
    /\ carried = [c \in Citizens |-> IF c = Hoarder THEN HOARDING_MAJOR_THRESHOLD ELSE 0]
    /\ ground = lying
    /\ investigations = [c \in Citizens |-> <<>>]
    /\ robots = [c \in Citizens |-> <<>>]
    /\ objects = NoObjects
    /\ shelf_owner = [shelf \in Shelves |-> Nobody]
    /\ shop_menu = [c \in Citizens |-> NoSale]
    /\ pending_gift = [c \in Citizens |-> NoGift]
    /\ gift_timers = [c \in Citizens |-> <<>>]
    /\ valid = [c \in Citizens |-> TRUE]
    /\ located = [c \in Citizens |-> TRUE]
    /\ temple = TRUE
    /\ shelved = [shelf \in Shelves |-> 0]
    /\ server_scripts = Started
    /\ shop_listed = NothingListed
    /\ danger = NoDanger
    /\ quote = NoQuote
    /\ last = NoObservation

InitRobot == OneHoarder(0)

NextRobot ==
    \/ \E caller \in Citizens, target \in Citizens : Report(caller, target)
    \/ \E target \in Citizens : InvestigationTick(target)
    \/ \E target \in Citizens : RobotTick(target)
    \/ \E char \in Deletable : DeleteCharacter(char)
    \/ Logout(Hoarder)
    \/ Login(Hoarder)
    \/ \E target \in Citizens : \E k \in DOMAIN robots[target] : DeleteRobot(target, k)
    \/ DeleteTemple

SpecRobot == InitRobot /\ [][NextRobot]_vars

(***************************************************************************)
(* One case from the report to the robot's clean-up, with timers that      *)
(* fire: a script's at_repeat is called every interval for as long as the  *)
(* script is running.  The hoarder may be deleted and the temple destroyed *)
(* at any moment.                                                          *)
(***************************************************************************)
NextCase ==
    \/ \E caller \in Citizens \ {Hoarder} : Report(caller, Hoarder)
    \/ \E target \in Citizens : InvestigationTick(target)
    \/ \E target \in Citizens : RobotTick(target)
    \/ DeleteCharacter(Hoarder)
    \/ DeleteTemple

SpecCaseFair ==
    /\ InitRobot
    /\ [][NextCase]_vars
    /\ \A target \in Citizens : WF_vars(InvestigationTick(target))
    /\ \A target \in Citizens : WF_vars(RobotTick(target))

(***************************************************************************)
(* The hoarder after the punishment: enough items lie on the ground for a  *)
(* second, minor hoard, with its fines and its own enforcement.            *)
(***************************************************************************)
InitRelapse == OneHoarder(HOARDING_MINOR_THRESHOLD)

\* The citizens who report the hoarder.
Informers == {2, 3}

NextRelapse ==
    \/ \E caller \in Informers : Report(caller, Hoarder)
    \/ GetAll(Hoarder)
    \/ \E target \in Citizens : InvestigationTick(target)
    \/ \E target \in Citizens : RobotTick(target)

SpecRelapse == InitRelapse /\ [][NextRelapse]_vars

(***************************************************************************)
(* The reward of one EXECUTE for a crowd of reporters, more than the       *)
(* citizens followed one by one: `listed` reporters on the script, `gone`  *)
(* of them deleted since.  What is paid is recorded: the number of living  *)
(* reporters (count), the share of each (ash) and the sum paid (amount).   *)
(***************************************************************************)
PayReporters(listed, gone) ==
    LET living == listed - gone
        share == IF living > 0 THEN reporter_share(living) ELSE 0
    IN /\ last' = [NoObservation EXCEPT !.op = "pay_reporters",
                                        !.result = "paid",
                                        !.scripts = listed,
                                        !.count = living,
                                        !.ash = share,
                                        !.amount = living * share]
       /\ UNCHANGED <<station_ash_pool, monitor_ticks, ash_tokens,
                      hoarding_offenses, under_investigation, carried, ground,
                      investigations, robots, objects, shelf_owner, calls,
                      sessions, beings>>

InitReward == OneHoarder(0)

NextReward ==
    \E listed \in 1 .. MaxReporters : \E gone \in 0 .. listed :
        PayReporters(listed, gone)

SpecReward == InitReward /\ [][NextReward]_vars

(***************************************************************************)
(* A citizen exactly at the minor threshold who can get below it: one of   *)
(* the items can be burned, before or after reports, fines and the opening *)
(* of an investigation.                                                    *)
(***************************************************************************)
InitQuiet ==
    /\ AtServerStart
    /\ ash_tokens = [c \in Citizens |-> 0]
    /\ carried = [c \in Citizens |->
                     IF c = Hoarder THEN HOARDING_MINOR_THRESHOLD - 1 ELSE 0]
    /\ objects = [o \in ObjectIds |->
                     IF o = 1 THEN Carried(Hoarder, "base", FALSE, FALSE, FALSE)
                     ELSE Absent]
    /\ danger = NoDanger
    /\ quote = NoQuote

NextQuiet ==
    \/ \E caller \in Citizens, target \in Citizens : Report(caller, target)
    \/ \E caller \in Citizens, o \in ObjectIds : CmdBurn(caller, o)
    \/ \E target \in Citizens : InvestigationTick(target)

SpecQuiet == InitQuiet /\ [][NextQuiet]_vars

(***************************************************************************)
(* Two items in the shop's stock and citizens who can pay for both, each   *)
(* browsing the shop's menu on their own.                                  *)
(***************************************************************************)
InitBuyers ==
    /\ AtServerStart
    /\ ash_tokens = [c \in Citizens |-> 2 * SHOP_BASE_PRICE]
    /\ carried = [c \in Citizens |-> 0]
    /\ objects = [o \in ObjectIds |->
                     IF o \in {1, 2} THEN [Absent EXCEPT !.place = "shop"]
                     ELSE Absent]
    /\ danger = NoDanger
    /\ quote = NoQuote

NextBuyers ==
    \/ \E caller \in Citizens, o \in ObjectIds : NodeBuyConfirm(caller, o)
    \/ \E caller \in Citizens : NodeBuyBack(caller)
    \/ \E caller \in Citizens : DoBuy(caller)

SpecBuyers == InitBuyers /\ [][NextBuyers]_vars

(***************************************************************************)
(* A hoarder with a display shelf: part of the hoard can be put on the     *)
(* shelf before the report, during the investigation or while the robot    *)
(* is on its way.                                                          *)
(***************************************************************************)
InitEstate ==
    /\ AtServerStart
    /\ ash_tokens = [c \in Citizens |-> 0]
    /\ carried = [c \in Citizens |->
                     IF c = Hoarder THEN HOARDING_MAJOR_THRESHOLD - 2 ELSE 0]
    /\ objects = [o \in ObjectIds |->
                     IF o \in {1, 2} THEN Carried(Hoarder, "base", FALSE, FALSE, FALSE)
                     ELSE Absent]
    /\ danger = NoDanger
    /\ quote = NoQuote

NextEstate ==
    \/ CmdClaim(Hoarder, 1)
    \/ \E o \in ObjectIds : CmdDisplay(Hoarder, 1, o)
    \/ \E o \in ObjectIds : CmdRetrieve(Hoarder, 1, o)
    \/ \E caller \in Informers : Report(caller, Hoarder)
    \/ \E target \in Citizens : InvestigationTick(target)
    \/ \E target \in Citizens : RobotTick(target)

SpecEstate == InitEstate /\ [][NextEstate]_vars

(***************************************************************************)
(* A robot script found in any phase, a phase name no handler exists for   *)
(* included, with its timer firing while the target logs out or is         *)
(* deleted and the robot or the temple is destroyed.                       *)
(***************************************************************************)
AnyPhases ==
    {"announce", "move", "seize", "escort", "execute", "cleanup", "unknown"}

InitEnforce ==
    /\ AtServerStart
    /\ ash_tokens = [c \in Citizens |-> 0]
    /\ carried = [c \in Citizens |->
                     IF c = Hoarder THEN HOARDING_MAJOR_THRESHOLD ELSE 0]
    /\ objects = NoObjects
    /\ danger = NoDanger
    /\ quote = NoQuote

\* The script is there with db.phase set to `phase`.
FindRobot(phase) ==
    /\ robots[Hoarder] = <<>>
    /\ last.op = "none"
    /\ robots' = [robots EXCEPT ![Hoarder] =
                     <<[target |-> Hoarder, reporters |-> Informers,
                        phase |-> phase, obj |-> TRUE]>>]
    /\ last' = [Snapshot("find_robot", Nobody, Hoarder, "found", 0)
                   EXCEPT !.phase = phase]
    /\ UNCHANGED <<station_ash_pool, monitor_ticks, ash_tokens, hoarding_offenses,
                   under_investigation, carried, ground, investigations, objects,
                   shelf_owner, calls, sessions, beings>>

NextEnforce ==
    \/ \E phase \in AnyPhases : FindRobot(phase)
    \/ \E target \in Citizens : RobotTick(target)
    \/ \E char \in Deletable : DeleteCharacter(char)
    \/ Logout(Hoarder)
    \/ Login(Hoarder)
    \/ \E target \in Citizens : \E k \in DOMAIN robots[target] : DeleteRobot(target, k)
    \/ DeleteTemple

SpecEnforceFair ==
    /\ InitEnforce
    /\ [][NextEnforce]_vars
    /\ \A target \in Citizens : WF_vars(RobotTick(target))

(***************************************************************************)
(* Claims about the enforcement machine (checked under Spec).              *)
(***************************************************************************)
\* The last handler was a report by another citizen against a target that was
\* not under investigation and whose item total was in the minor range.
MinorReport ==
    /\ last.op = "report"
    /\ last.caller # last.target
    /\ ~last.flagged
    /\ last.count >= HOARDING_MINOR_THRESHOLD
    /\ last.count < HOARDING_MAJOR_THRESHOLD

\* The fine was applied by the last report.
Fined == last.op = "report" /\ last.result = "fined"

\* C3 as stated: every fine lowers the target's balance by f and raises the
\* pool by f, in every pool state.
C3_FineRecycledAlways ==
    Fined =>
        /\ ash_tokens[last.target] = last.ash - last.amount
        /\ station_ash_pool = last.pool + last.amount

\* C3 amended: a fine f lowers the target's balance by exactly f and raises
\* the pool to min(pool + f, STATION_MAX_ASH_POOL); balance + pool is unchanged
\* exactly when pool + f does not exceed the cap.
C3_FineRecycledUpToCap ==
    Fined =>
        /\ last.amount > 0
        /\ ash_tokens[last.target] = last.ash - last.amount
        /\ station_ash_pool = Min(last.pool + last.amount, STATION_MAX_ASH_POOL)
        /\ (last.pool + last.amount <= STATION_MAX_ASH_POOL
              <=> ash_tokens[last.target] + station_ash_pool = last.ash + last.pool)

\* A fine was applied below the cap and the pool rose by exactly the fine.
C3_Witness ==
    /\ Fined
    /\ last.amount = 15
    /\ station_ash_pool = last.pool + 15
    /\ ash_tokens[last.target] = last.ash - 15

\* C7: a minor-range report against a citizen not under investigation whose
\* counter n selects a non-zero schedule entry deducts exactly schedule[n]
\* (the balance may go negative), sets the counter to n + 1 and opens no
\* investigation; with [5, 15, 0] the first report deducts 5, the second 15.
C7_MinorReportFines ==
    (/\ MinorReport
     /\ last.offenses < Len(HOARDING_FINE_SCHEDULE)
     /\ HOARDING_FINE_SCHEDULE[last.offenses + 1] # 0)
    =>
        /\ last.result = "fined"
        /\ ash_tokens[last.target] =
               last.ash - HOARDING_FINE_SCHEDULE[last.offenses + 1]
        /\ hoarding_offenses[last.target] = last.offenses + 1
        /\ ~under_investigation[last.target]
        /\ investigations[last.target] = <<>>
        /\ (last.offenses = 0 => ash_tokens[last.target] = last.ash - 5)
        /\ (last.offenses = 1 => ash_tokens[last.target] = last.ash - 15)

\* The second fine took a balance that was already negative further down.
C7_Witness ==
    /\ MinorReport
    /\ last.offenses = 1
    /\ last.ash = -5
    /\ ash_tokens[last.target] = -20
    /\ hoarding_offenses[last.target] = 2

\* C8 as stated: the counter goes up by one per minor-range report until it
\* reaches the length of the fine schedule.
C8_CounterReachesScheduleLength ==
    (MinorReport /\ last.offenses < Len(HOARDING_FINE_SCHEDULE))
    => hoarding_offenses[last.target] = last.offenses + 1

\* C8 amended: the counter goes up by one per minor-range report while the
\* schedule entry it selects is non-zero, so it stops at the index of the
\* sentinel (schedule length - 1); from then on every minor-range report
\* escalates to an investigation, charging nothing and leaving the counter.
C8_CounterStopsAtSentinel ==
    /\ \A c \in Citizens : hoarding_offenses[c] <= Len(HOARDING_FINE_SCHEDULE) - 1
    /\ (MinorReport /\ last.offenses < Len(HOARDING_FINE_SCHEDULE) - 1)
       => /\ last.result = "fined"
          /\ hoarding_offenses[last.target] = last.offenses + 1
    /\ (MinorReport /\ last.offenses >= Len(HOARDING_FINE_SCHEDULE) - 1)
       => /\ last.result = "escalated"
          /\ hoarding_offenses[last.target] = last.offenses
          /\ ash_tokens[last.target] = last.ash
          /\ station_ash_pool = last.pool
          /\ under_investigation[last.target]
          /\ Len(investigations[last.target]) = last.scripts + 1

\* A report escalated again after an earlier investigation had already run
\* its course: the counter still stood at the sentinel's index.
C8_Witness ==
    /\ MinorReport
    /\ last.result = "escalated"
    /\ last.offenses = 2
    /\ ash_tokens[last.target] = -20
    /\ robots[last.target] # <<>>

\* C9: a report against a citizen at or above the major threshold who is not
\* under investigation opens an investigation at once (flag set, one script
\* created with the reporter as its first reporter), whatever the offense
\* counter, charging nothing and leaving balance and counter alone.
C9_MajorReportInvestigates ==
    (/\ last.op = "report"
     /\ last.caller # last.target
     /\ ~last.flagged
     /\ last.count >= HOARDING_MAJOR_THRESHOLD)
    =>
        /\ under_investigation[last.target]
        /\ Len(investigations[last.target]) = last.scripts + 1
        /\ investigations[last.target][last.scripts + 1] =
               [target |-> last.target,
                ticks_remaining |-> INVESTIGATION_TICKS,
                total_ticks |-> INVESTIGATION_TICKS,
                reporters |-> {last.caller}]
        /\ ash_tokens[last.target] = last.ash
        /\ hoarding_offenses[last.target] = last.offenses
        /\ station_ash_pool = last.pool

\* A citizen already fined once crossed the major threshold and was reported.
C9_Witness ==
    /\ last.op = "report"
    /\ last.result = "major"
    /\ last.offenses = 1
    /\ last.count = HOARDING_MAJOR_THRESHOLD
    /\ under_investigation[last.target]

\* C10: an extra distinct reporter never raises ticks_remaining and lowers it
\* by the speed-up, floored at 1; an open investigation never shows fewer
\* than 1 tick, and no report closes it.
C10_SpeedupMonotonicFloored ==
    /\ \A c \in Citizens : \A k \in 1 .. Len(investigations[c]) :
           investigations[c][k].ticks_remaining >= 1
    /\ (last.op = "report" /\ last.result = "added")
       => /\ Len(investigations[last.target]) = 1
          /\ TicksOf(last.target) <= last.ticks
          /\ TicksOf(last.target) >= 1
          /\ (last.ticks - INVESTIGATION_SPEEDUP_PER_REPORT >= 1
                => TicksOf(last.target) =
                       last.ticks - INVESTIGATION_SPEEDUP_PER_REPORT)
          /\ last.caller \notin last.reporters
          /\ ReportersOf(last.target) = last.reporters \cup {last.caller}

\* A new reporter joined an investigation that had one tick left: the floor
\* kept it open with one tick still to run.
C10_Witness ==
    /\ last.op = "report"
    /\ last.result = "added"
    /\ last.ticks = 1
    /\ TicksOf(last.target) = 1
    /\ Cardinality(ReportersOf(last.target)) = 2

(***************************************************************************)
(* Claims about the station pool (checked under SpecLedger).               *)
(***************************************************************************)
\* C1: after any sequence of credits, debits, shop purchases and sales,
\* hoarding fines and recharge ticks the pool stays within
\* [0, STATION_MAX_ASH_POOL], and a credit that would overshoot leaves the
\* pool at the max (a credit of 2500 leaves 2000).
C1_PoolWithinBounds ==
    /\ station_ash_pool >= 0
    /\ station_ash_pool <= STATION_MAX_ASH_POOL
    /\ (last.op = "credit" /\ last.pool + last.amount > STATION_MAX_ASH_POOL)
       => station_ash_pool = STATION_MAX_ASH_POOL
    /\ (last.op = "credit" /\ last.amount = 2500) => station_ash_pool = 2000

\* A credit of 2500 has just filled a pool that shop trade, a fine and a
\* recharge had moved off the round values.
C1_Witness ==
    /\ last.op = "credit"
    /\ last.amount = 2500
    /\ last.pool = 28
    /\ station_ash_pool = 2000

\* C2: debit_station_pool(amount) succeeds exactly when pool >= amount,
\* then lowering the pool by exactly amount; otherwise it fails and the pool
\* is what it was (an empty pool refuses every positive amount and stays
\* empty).
C2_DebitAllOrNothing ==
    last.op = "debit" =>
        /\ last.result \in {"ok", "failed"}
        /\ last.result = "ok" <=> last.pool >= last.amount
        /\ last.result = "ok" => station_ash_pool = last.pool - last.amount
        /\ last.result = "failed" => station_ash_pool = last.pool
        /\ (last.pool = 0 /\ last.amount > 0)
           => (last.result = "failed" /\ station_ash_pool = 0)

\* A debit asked for more than a non-empty pool held: it failed and the pool
\* kept what it had.
C2_Witness ==
    /\ last.op = "debit"
    /\ last.result = "failed"
    /\ last.amount = STATION_INITIAL_ASH_POOL
    /\ last.pool = 3
    /\ station_ash_pool = 3

(***************************************************************************)
(* Claim about the danger classifier (checked under SpecDanger).           *)
(***************************************************************************)
\* C4: for a limit >= 1 the level never falls as the count rises, and the
\* level is sinking iff count/limit >= 1.0, critical iff >= 0.90, warning
\* iff >= 0.75, else safe; count = limit is sinking.
C4_DangerMonotonicInclusive ==
    danger.limit >= 1 =>
        /\ danger.prev_count <= danger.count
           => LevelRank(danger.prev_level) <= LevelRank(danger.level)
        /\ danger.level = "sinking" <=> danger.count >= danger.limit
        /\ danger.level = "critical"
           <=> /\ 100 * danger.count >= 90 * danger.limit
               /\ danger.count < danger.limit
        /\ danger.level = "warning"
           <=> /\ 100 * danger.count >= 75 * danger.limit
               /\ 100 * danger.count < 90 * danger.limit
        /\ danger.level = "safe" <=> 100 * danger.count < 75 * danger.limit
        /\ danger.count = danger.limit => danger.level = "sinking"

\* One item short of the limit was critical, and the count that equals the
\* limit is sinking.
C4_Witness ==
    /\ danger.limit = ZONE_ITEM_LIMIT
    /\ danger.prev_count = ZONE_ITEM_LIMIT - 1
    /\ danger.prev_level = "critical"
    /\ danger.count = ZONE_ITEM_LIMIT
    /\ danger.level = "sinking"

(***************************************************************************)
(* Claim about pricing (checked under SpecPrice).                          *)
(***************************************************************************)
\* C5: for every item and every population both prices are at least 1, and
\* for a non-cursed item the sell price does not exceed the buy price.
C5_SellAtMostBuy ==
    quote.asked =>
        /\ quote.buy >= 1
        /\ quote.sell >= 1
        /\ ~quote.item.cursed => quote.sell <= quote.buy

\* Food so abundant that the multiplier is at its minimum: both prices rest
\* on the floor of 1 ash.
C5_Witness ==
    /\ quote.asked
    /\ get_item_category(quote.item) = "food"
    /\ quote.found = 4 * SCARCITY_BASELINES.food
    /\ quote.buy = 1
    /\ quote.sell = 1

(***************************************************************************)
(* Claim about the weight model (checked under SpecWeight).                *)
(***************************************************************************)
\* The platform weight if a displayed masterpiece weighed a quarter unit:
\* both fractions applied to an object that is displayed and a masterpiece.
QuarterWeightCount ==
    LET Weight(obj) ==
            IF ~Exists(obj) THEN 0
            ELSE IF obj.material THEN MATERIAL_WEIGHT_FRACTION
            ELSE IF obj.displayed /\ obj.artwork
                 THEN (DISPLAY_WEIGHT_FRACTION * MASTERPIECE_WEIGHT_FRACTION) \div 100
            ELSE IF obj.displayed THEN DISPLAY_WEIGHT_FRACTION
            ELSE IF obj.artwork THEN MASTERPIECE_WEIGHT_FRACTION
            ELSE 100
        SumWeights[n \in 0 .. MaxObjects] ==
            IF n = 0 THEN 0 ELSE Weight(objects[n]) + SumWeights[n - 1]
    IN (SumWeights[MaxObjects]
        + 100 * (SumCarried(NumCitizens) + ground)
        + 100 * Cardinality(Citizens) * PLAYER_BODY_WEIGHT) \div 100

\* C6: a masterpiece on a display shelf adds 0.25 to the platform weight, so
\* the weighted count is the one that gives such objects a quarter unit.
C6_DisplayedMasterpieceQuarter == get_item_count = QuarterWeightCount

\* Two masterpieces stand on the shelf.
C6_TwoMasterpiecesDisplayed ==
    Cardinality({o \in ObjectIds :
                    OnShelf(objects[o]) /\ objects[o].artwork}) = 2

(***************************************************************************)
(* Claim about the item total of a citizen (checked under SpecShelf).      *)
(***************************************************************************)
\* C11: get_player_item_count(citizen) is the number of objects in the
\* citizen's inventory plus the number of items on every shelf the citizen
\* owns, and unclaiming a shelf takes its items off the citizen's total at
\* once.
C11_InventoryPlusOwnedShelves ==
    /\ \A c \in Citizens :
          get_player_item_count(c) =
              Cardinality({o \in ObjectIds : objects[o].place = "inventory"
                                              /\ objects[o].holder = c})
              + Cardinality({o \in ObjectIds :
                                objects[o].place = "shelf"
                                /\ shelf_owner[objects[o].holder] = c})
    /\ last.op = "unclaim"
       => get_player_item_count(last.caller) =
              last.count
              - Cardinality({o \in ObjectIds :
                                objects[o].place = "shelf"
                                /\ shelf_owner[objects[o].holder] = Nobody
                                /\ objects[o].holder = last.amount})

\* A citizen who owned both shelves, with items on each, has just released
\* one: only the other shelf's item still counts.
C11_Witness ==
    /\ last.op = "unclaim"
    /\ last.count = 3
    /\ get_player_item_count(last.caller) = 1
    /\ \E shelf \in Shelves : shelf_owner[shelf] = last.caller

(***************************************************************************)
(* Claim about selling (checked under SpecLedger).                         *)
(***************************************************************************)
\* The last handler was a sale, by command or through the menu, of an item
\* the shop deals in.
SaleTried == last.op \in {"sell", "do_sell"} /\ last.result # "declined"

\* C12: a successful sale lowers the pool by exactly the price and raises
\* the seller's balance by the same price, and the item is in the shop; a
\* sale the pool cannot cover is refused, and pool, balance and the item's
\* place are what they were.
C12_SaleDrawsOnPool ==
    SaleTried =>
        /\ last.result \in {"sold", "refused"}
        /\ last.result = "sold" <=> last.pool >= last.amount
        /\ last.result = "sold"
           => /\ station_ash_pool = last.pool - last.amount
              /\ ash_tokens[last.caller] = last.ash + last.amount
              /\ station_ash_pool + ash_tokens[last.caller] = last.pool + last.ash
              /\ InShop(objects[last.item])
        /\ last.result = "refused"
           => /\ station_ash_pool = last.pool
              /\ ash_tokens[last.caller] = last.ash
              /\ InInventory(objects[last.item], last.caller)

\* The menu quoted a price the pool could pay, the pool was emptied before
\* the seller answered, and the sale was refused with the item still held.
C12_Witness ==
    /\ last.op = "do_sell"
    /\ last.result = "refused"
    /\ last.amount > station_ash_pool
    /\ InInventory(objects[last.item], last.caller)

\* A sale went through and the shop holds the item.
C12_SoldWitness ==
    /\ SaleTried
    /\ last.result = "sold"
    /\ last.amount = 2
    /\ InShop(objects[last.item])

(***************************************************************************)
(* Claim about incineration (checked under SpecLedger).                    *)
(***************************************************************************)
\* C13: incinerating an item raises the station pool by the incineration
\* reward, up to the pool's maximum.
C13_IncinerationCreditsPool ==
    last.op = "burn" =>
        station_ash_pool = Min(last.pool + last.amount, STATION_MAX_ASH_POOL)

\* What the incinerator does: the reward goes to the citizen who burned the
\* item, and the pool, which had room for it, is what it was.
C13_RewardGoesToCitizen ==
    /\ last.op = "burn"
    /\ last.amount = ASH_REWARD_CURSED
    /\ last.pool + last.amount <= STATION_MAX_ASH_POOL
    /\ station_ash_pool = last.pool
    /\ ash_tokens[last.caller] = last.ash + last.amount
    /\ ~Exists(objects[last.item])

WeightInHundredths ==
    LET Weight(obj) ==
            IF ~Exists(obj) THEN 0
            ELSE IF obj.material THEN 33
            ELSE IF obj.displayed THEN 50
            ELSE IF obj.artwork THEN 50
            ELSE 100
        SumWeights[n \in 0 .. MaxObjects] ==
            IF n = 0 THEN 0 ELSE Weight(objects[n]) + SumWeights[n - 1]
    IN SumWeights[MaxObjects]
       + 100 * (SumCarried(NumCitizens) + ground)
       + 100 * Cardinality(Citizens) * PLAYER_BODY_WEIGHT

C16_WombRefusesWhenSinking ==
    [][LET level == get_danger_level(get_item_count, ZONE_ITEM_LIMIT)
           user == last'.caller
           created == {o \in ObjectIds :
                          ~Exists(objects[o]) /\ Exists(objects'[o])}
           world == <<ash_tokens, objects, carried, ground, station_ash_pool>>
       IN last'.op = "use" =>
            /\ level = "sinking"
               => world' = world /\ last'.result = "sinking"
            /\ level # "sinking" /\ ash_tokens[user] < ITEMATOR_COST
               => world' = world /\ last'.result = "no_ash"
            /\ level # "sinking" /\ ash_tokens[user] >= ITEMATOR_COST
               => /\ last'.result = "spawned"
                  /\ ash_tokens' =
                         [ash_tokens EXCEPT ![user] = @ - ITEMATOR_COST]
                  /\ Cardinality(created) = 1
                  /\ \A o \in ObjectIds \ created : objects'[o] = objects[o]
                  /\ <<carried, ground, station_ash_pool>>' =
                         <<carried, ground, station_ash_pool>>]_vars

\* A womb made an object that brought the count to the limit, and the next
\* use, by a citizen who had the ash, was refused.
C16_Witness ==
    /\ last.op = "use"
    /\ last.result = "sinking"
    /\ ash_tokens[last.caller] >= ITEMATOR_COST
    /\ \E o \in ObjectIds : objects[o].place = "room"
    /\ get_item_count = ZONE_ITEM_LIMIT

(***************************************************************************)
(* Claim about cursed items at the counters (checked under SpecShops).     *)
(***************************************************************************)
\* C17: a citizen can sell a cursed item at a shop: whenever a citizen
\* carries a cursed item, at least one of the boutique, the food market and
\* the general store accepts it for sale.
C17_SomeShopBuysCursed ==
    \A o \in ObjectIds :
        objects[o].cursed /\ objects[o].place = "inventory"
        => \E type \in ShopTypes : shop_accepts_item(type, objects[o])

\* What the counters do: the citizen offered the cursed item, the pool could
\* pay the cursed sell price, and the counter declined; the citizen still
\* carries it and has been paid nothing.
C17_CursedDeclined ==
    /\ last.op = "sell"
    /\ last.result = "declined"
    /\ last.shop \in ShopTypes
    /\ objects[last.item].cursed
    /\ last.amount >= SHOP_CURSED_SELL_PRICE
    /\ station_ash_pool >= last.amount
    /\ InInventory(objects[last.item], last.caller)
    /\ ash_tokens[last.caller] = last.ash

\* No sale of a cursed item ever goes through at the three counters.
C17_CursedNeverSold ==
    last.op = "sell" /\ last.result = "sold" => ~objects[last.item].cursed

(***************************************************************************)
(* Claim about gifts (checked under SpecGift).                             *)
(***************************************************************************)
\* C18: the auto-accept timer never moves a gift to the recipient earlier
\* than 60 seconds after that gift was offered.
C18_AutoAcceptAfterTimeout ==
    last.op = "auto_accept" => last.amount >= GIFT_TIMEOUT

\* The timer of an earlier gift, which the recipient had answered, fired
\* while a later gift was on offer: that gift was accepted for the
\* recipient 30 seconds after its offer.
C18_StaleTimerAccepts ==
    /\ last.op = "auto_accept"
    /\ last.amount = ClockStep
    /\ InInventory(objects[last.item], last.caller)
    /\ ~GiftPending(last.caller)
    /\ gift_timers[last.caller] # <<>>

(***************************************************************************)
(* Claim about the pool round trip (checked under SpecTrip).               *)
(***************************************************************************)
\* C19: for a pool p and an amount x >= 0 with p + x at most the maximum,
\* credit_station_pool(x) followed by debit_station_pool(x) succeeds and
\* leaves the pool at exactly p.
C19_CreditDebitRoundTrip ==
    (/\ last.op = "credit_debit"
     /\ last.amount >= 0
     /\ last.pool + last.amount <= STATION_MAX_ASH_POOL)
    => /\ last.result = "ok"
       /\ station_ash_pool = last.pool

\* A round trip that just fits: the credit filled the pool to the maximum
\* and the debit brought it back.
C19_Witness ==
    /\ last.op = "credit_debit"
    /\ last.result = "ok"
    /\ last.amount = STATION_INITIAL_ASH_POOL
    /\ last.pool + last.amount = STATION_MAX_ASH_POOL
    /\ station_ash_pool = last.pool

(***************************************************************************)
(* Claim about one offender's cases (checked under Spec).                  *)
(***************************************************************************)
\* C20: for every offender at most one investigation or enforcement robot
\* is active at any moment, and a report made while the offender's robot is
\* running its phases never opens an investigation.
C20_OneCaseAtATime ==
    /\ \A target \in Citizens :
          Len(investigations[target]) + Len(robots[target]) <= 1
    /\ (last.op = "report" /\ last.result \in {"major", "escalated"})
       => robots[last.target] = <<>>

\* The robot sent for the offender is between announce and execute, the
\* offender still holds the hoard, and a report has just opened a second
\* investigation.
C20_SecondCaseDuringRobot ==
    /\ last.op = "report"
    /\ last.result = "major"
    /\ Len(robots[last.target]) = 1
    /\ Len(investigations[last.target]) = 1
    /\ under_investigation[last.target]
    /\ get_player_item_count(last.target) >= HOARDING_MAJOR_THRESHOLD

\* The offender was executed a second time, by the robot of the
\* investigation opened while the first robot was running, with nothing
\* picked up in between.
C20_PunishedTwice ==
    /\ last.op = "robot_tick"
    /\ last.result = "execute"
    /\ last.ash = 0 - EUTHANASIA_DEBT
    /\ last.count = 0

(***************************************************************************)
(* Claim about the monitor's broadcasts (checked under SpecMonitor).       *)
(***************************************************************************)
\* C21: a tick broadcasts only if the level rose since the previous tick or
\* the level is critical or sinking; a fall to warning or to safe, and an
\* unchanged warning, are silent.
C21_BroadcastOnlyUpwardOrNagging ==
    (last.op = "monitor" /\ danger.broadcast # "none")
    => \/ LevelRank(danger.level) > LevelRank(danger.prev_level)
       \/ danger.level \in {"critical", "sinking"}

\* The count fell between two ticks and took the level from critical down to
\* warning: the tick sent the warning message to every citizen.
C21_DescentBroadcasts ==
    /\ last.op = "monitor"
    /\ danger.prev_level = "critical"
    /\ danger.level = "warning"
    /\ danger.count < danger.prev_count
    /\ danger.broadcast = "warning"

\* What the tick does: it broadcasts exactly when the level differs from the
\* cached one and is not safe, or is critical or sinking.
C21_BroadcastOnChangeOrNagging ==
    last.op = "monitor"
    => (danger.broadcast # "none"
        <=> \/ danger.level # danger.prev_level /\ danger.level # "safe"
            \/ danger.level \in {"critical", "sinking"})

(***************************************************************************)
(* Claims about the enforcement robot (checked under SpecRobot).           *)
(***************************************************************************)
PunishingPhases == {"announce", "move", "seize", "escort", "execute"}

\* This step is a tick of the robot sent for `target`.
RobotStepped(target) ==
    /\ robots[target] # <<>>
    /\ robots'[target] # robots[target]
    /\ last'.op = "robot_tick"

\* This step leaves every inventory, balance and offense counter alone.
NobodyTouched ==
    /\ carried' = carried
    /\ objects' = objects
    /\ ash_tokens' = ash_tokens
    /\ hoarding_offenses' = hoarding_offenses

\* C22: a robot tick that finds the target or the robot gone at the start of
\* ANNOUNCE, MOVE, SEIZE, ESCORT or EXECUTE goes straight to CLEANUP (the
\* script is removed) and changes no inventory, balance or offense counter.
C22_FailsSoftInEveryPhase ==
    [][\A t \in Citizens :
          (/\ RobotStepped(t)
           /\ robots[t][1].phase \in PunishingPhases
           /\ (~valid[t] \/ ~robots[t][1].obj))
          => (robots'[t] = <<>> /\ NobodyTouched)]_vars

\* C22, as the code has it: the robot is only looked at before EXECUTE.
C22_FailsSoftBeforeExecute ==
    [][\A t \in Citizens :
          (/\ RobotStepped(t)
           /\ robots[t][1].phase \in PunishingPhases
           /\ \/ ~valid[t]
              \/ ~robots[t][1].obj /\ robots[t][1].phase # "execute")
          => (robots'[t] = <<>> /\ NobodyTouched)]_vars

\* EXECUTE has punished a target whose robot was already gone.
C22_ExecutedWithoutRobot ==
    /\ last.op = "robot_tick"
    /\ last.phase = "execute"
    /\ last.result = "execute"
    /\ robots[last.target] # <<>>
    /\ ~robots[last.target][1].obj
    /\ ash_tokens[last.target] = -EUTHANASIA_DEBT

\* A phase before EXECUTE was aborted because the robot or the target was gone.
C22_AbortedWitness ==
    /\ last.op = "robot_tick"
    /\ last.result = "aborted"
    /\ last.phase \in {"seize", "escort"}
    /\ robots[last.target] = <<>>


\* The last step was the EXECUTE phase carried out on last.target.
Executed ==
    /\ last.op = "robot_tick"
    /\ last.phase = "execute"
    /\ last.result = "execute"

\* C23: the target's balance after EXECUTE is never above the balance it had
\* before EXECUTE, whatever that balance was.
C23_PunishmentNeverEnriches ==
    Executed => ash_tokens[last.target] <= last.ash

\* EXECUTE has raised a balance that fines had driven below the debt.
C23_DebtForgiven ==
    /\ Executed
    /\ last.ash < -EUTHANASIA_DEBT
    /\ ash_tokens[last.target] = -EUTHANASIA_DEBT

\* C23, as the code has it: EXECUTE leaves the smaller balance only when the
\* balance before was at least the debt below zero.
C23_NeverEnrichesAboveDebt ==
    (Executed /\ last.ash >= -EUTHANASIA_DEBT)
        => ash_tokens[last.target] <= last.ash


\* C24: after EXECUTE on a valid target nothing is left in the target's
\* inventory, the balance is exactly -EUTHANASIA_DEBT whatever it was, the
\* offense counter is 0, the investigation flag is clear and the script's
\* next phase is CLEANUP.
C24_ExecuteStripsAndResets ==
    Executed =>
        LET t == last.target
        IN /\ carried[t] = 0
           /\ \A o \in ObjectIds : ~InInventory(objects[o], t)
           /\ ash_tokens[t] = -EUTHANASIA_DEBT
           /\ hoarding_offenses[t] = 0
           /\ ~under_investigation[t]
           /\ robots[t] # <<>>
           /\ robots[t][1].phase = "cleanup"

\* EXECUTE has run on a target with a hoard, fines on the balance and
\* offenses on the counter.
C24_Witness ==
    /\ Executed
    /\ last.count >= HOARDING_MINOR_THRESHOLD
    /\ last.ash < -EUTHANASIA_DEBT
    /\ last.offenses > 0
    /\ carried[last.target] = 0


(***************************************************************************)
(* Claims about the reporters' reward (SpecReward, SpecRobot).             *)
(***************************************************************************)
\* C25: with at least one living reporter, the ash paid out by one EXECUTE
\* to all reporters together is at most EUTHANASIA_REWARD.
C25_RewardNeverExceeded ==
    (last.op = "pay_reporters" /\ last.count >= 1)
        => last.amount <= EUTHANASIA_REWARD

\* More living reporters than the reward has ash: each is paid 1.
C25_CrowdPaidMoreThanReward ==
    /\ last.op = "pay_reporters"
    /\ last.count > EUTHANASIA_REWARD
    /\ last.ash = 1
    /\ last.amount > EUTHANASIA_REWARD

\* C25, as the code has it: the sum stays within the reward while the
\* living reporters are no more than the reward has ash.
C25_RewardKeptUpToRewardReporters ==
    (last.op = "pay_reporters" /\ last.count >= 1
        /\ last.count <= EUTHANASIA_REWARD)
        => last.amount <= EUTHANASIA_REWARD


InvestigationStepped(target) ==
    /\ investigations[target] # <<>>
    /\ investigations'[target] # investigations[target]
    /\ last'.op = "inv_tick"

\* The budget of every open investigation is between 1 and its total.
TicksWithinBudget ==
    \A t \in Citizens :
        /\ Len(investigations[t]) <= 1
        /\ \A k \in DOMAIN investigations[t] :
              /\ investigations[t][k].total_ticks = INVESTIGATION_TICKS
              /\ investigations[t][k].ticks_remaining >= 1
              /\ investigations[t][k].ticks_remaining
                     <= investigations[t][k].total_ticks

\* The step leaves exactly one robot script for t: phase ANNOUNCE, the
\* reporters of the investigation, attached to a robot.
SpawnedOne(t, script) ==
    robots'[t] = <<[target |-> t, reporters |-> script.reporters,
                    phase |-> "announce", obj |-> TRUE]>>

\* A tick with a valid target and budget left takes one off the budget.
TickCountsDown(t) ==
    (InvestigationStepped(t) /\ valid[t]
        /\ investigations[t][1].ticks_remaining > 1)
    => /\ investigations'[t] =
             <<[investigations[t][1] EXCEPT !.ticks_remaining = @ - 1]>>
       /\ robots' = robots
       /\ under_investigation' = under_investigation

\* The tick of a valid target that uses up the budget.
TickResolves(t) ==
    /\ InvestigationStepped(t)
    /\ valid[t]
    /\ investigations[t][1].ticks_remaining <= 1

\* A robot script is added in a tick of the investigation only.
SpawnOnlyInTick(t) ==
    Len(robots'[t]) > Len(robots[t]) => InvestigationStepped(t)

\* An open investigation of a target that stays valid comes to its end.
EveryInvestigationEnds ==
    \A t \in Citizens :
        (investigations[t] # <<>>) ~> (investigations[t] = <<>> \/ ~valid[t])

\* C27: with fair timers and a valid target, an investigation of T ticks
\* ends after at most T ticks (the budget never exceeds T and every tick
\* takes one off) and not without a tick; the resolving tick leaves exactly
\* one robot script in phase ANNOUNCE with the investigation's reporters,
\* clears the flag and removes the investigation.
C27_ResolvesWithOneRobot ==
    /\ []TicksWithinBudget
    /\ [][\A t \in Citizens :
             /\ TickCountsDown(t)
             /\ SpawnOnlyInTick(t)
             /\ TickResolves(t)
                   => /\ investigations'[t] = <<>>
                      /\ ~under_investigation'[t]
                      /\ SpawnedOne(t, investigations[t][1])]_vars
    /\ EveryInvestigationEnds

\* C27, as the code has it: the robot is spawned if the temple is found,
\* and no robot otherwise.
C27_ResolvesWithOneRobotIfTemple ==
    /\ []TicksWithinBudget
    /\ [][\A t \in Citizens :
             /\ TickCountsDown(t)
             /\ SpawnOnlyInTick(t)
             /\ TickResolves(t)
                   => /\ investigations'[t] = <<>>
                      /\ ~under_investigation'[t]
                      /\ IF temple THEN SpawnedOne(t, investigations[t][1])
                         ELSE robots' = robots]_vars
    /\ EveryInvestigationEnds

\* An investigation with two reporters has resolved into a robot.
C27_Witness ==
    /\ last.op = "inv_tick"
    /\ last.result = "resolved"
    /\ last.reporters = {2, 3}
    /\ last.ticks = 1
    /\ investigations[last.target] = <<>>
    /\ robots[last.target] # <<>>
    /\ robots[last.target][1].phase = "announce"
    /\ robots[last.target][1].reporters = {2, 3}

\* An investigation has resolved with no temple: no robot, flag cleared.
C27_ResolvedWithoutRobot ==
    /\ last.op = "inv_tick"
    /\ last.result = "resolved"
    /\ ~temple
    /\ robots[last.target] = <<>>
    /\ ~under_investigation[last.target]


\* C28: the tick of an investigation whose target is gone removes the
\* investigation and does nothing else (no tick taken off, no broadcast, no
\* robot, nobody's flag, balance or inventory changed); no investigation of
\* a target that is gone exists or fires after that.
C28_InvalidTargetStopsInvestigation ==
    [][\A t \in Citizens :
          /\ (InvestigationStepped(t) /\ ~valid[t])
                => /\ investigations'[t] = <<>>
                   /\ last'.result = "invalidated"
                   /\ last'.ticks = investigations[t][1].ticks_remaining
                   /\ robots' = robots
                   /\ under_investigation' = under_investigation
                   /\ NobodyTouched
          /\ (~valid[t] /\ investigations[t] = <<>>)
                => investigations'[t] = <<>>]_vars

\* An investigation with ticks left was stopped because its target was gone.
C28_Witness ==
    /\ last.op = "inv_tick"
    /\ last.result = "invalidated"
    /\ last.ticks > 1
    /\ ~valid[last.target]
    /\ investigations[last.target] = <<>>
    /\ robots[last.target] = <<>>


(***************************************************************************)
(* Claims about the order of the phases (SpecRobot).                       *)
(***************************************************************************)
PhaseOrder == <<"announce", "move", "seize", "escort", "execute", "cleanup">>

\* The place of a phase in the order.
PhaseIndex(phase) == CHOOSE i \in DOMAIN PhaseOrder : PhaseOrder[i] = phase

\* The tick carries out the phase the script is in and leaves the script in
\* the phase that follows in the order; the tick in CLEANUP ends the script.
TickAdvancesOnePhase(t) ==
    LET phase == robots[t][1].phase
    IN /\ last'.phase = phase
       /\ last'.result = phase
       /\ IF phase = "cleanup"
          THEN robots'[t] = <<>>
          ELSE /\ robots'[t] # <<>>
               /\ robots'[t][1].phase = PhaseOrder[PhaseIndex(phase) + 1]

\* A script begins in ANNOUNCE and is never in a phase it was not in
\* before, or reached from the phase just before it in the order; the
\* punishment is dealt by a tick in EXECUTE only.
PhaseReachedInOrder(t) ==
    /\ (robots[t] = <<>> /\ robots'[t] # <<>>)
          => robots'[t][1].phase = "announce"
    /\ (robots[t] # <<>> /\ robots'[t] # <<>>)
          => \/ robots'[t][1].phase = robots[t][1].phase
             \/ PhaseIndex(robots'[t][1].phase)
                   = PhaseIndex(robots[t][1].phase) + 1
    /\ (last'.op = "robot_tick" /\ last'.target = t
           /\ last'.result = "execute" /\ last' # last)
          => (robots[t] # <<>> /\ robots[t][1].phase = "execute")

\* C29: while target and robot are valid every tick of the robot's script
\* carries out one phase and moves to the next in the order ANNOUNCE, MOVE,
\* SEIZE, ESCORT, EXECUTE, CLEANUP, none skipped and none repeated; EXECUTE
\* is reached only through the four phases before it.
C29_PhasesInFixedOrder ==
    [][\A t \in Citizens :
          /\ PhaseReachedInOrder(t)
          /\ (RobotStepped(t) /\ valid[t] /\ robots[t][1].obj)
                => TickAdvancesOnePhase(t)]_vars

\* C29, as the code has it: MOVE also needs the target to be in a room and
\* ESCORT needs the temple to be found; without them the tick cleans up.
C29_PhasesInFixedOrderWithRooms ==
    [][\A t \in Citizens :
          /\ PhaseReachedInOrder(t)
          /\ (RobotStepped(t) /\ valid[t] /\ robots[t][1].obj)
                => IF \/ robots[t][1].phase = "move" /\ ~located[t]
                      \/ robots[t][1].phase = "escort" /\ ~temple
                   THEN robots'[t] = <<>> /\ NobodyTouched
                   ELSE TickAdvancesOnePhase(t)]_vars

\* The robot has gone through every phase and is in CLEANUP.
C29_Witness ==
    /\ Executed
    /\ valid[last.target]
    /\ robots[last.target] # <<>>
    /\ robots[last.target][1].obj
    /\ robots[last.target][1].phase = "cleanup"
    /\ carried[last.target] = 0

\* MOVE found the target logged out, or ESCORT found no temple: the script
\* was cleaned up with target and robot valid and EXECUTE never ran.
C29_CutShortWithBothValid ==
    /\ last.op = "robot_tick"
    /\ last.result = "aborted"
    /\ last.phase \in {"move", "escort"}
    /\ valid[last.target]
    /\ robots[last.target] = <<>>
    /\ carried[last.target] = HOARDING_MAJOR_THRESHOLD


(***************************************************************************)
(* Claims about reports during an investigation (Spec).                    *)
(***************************************************************************)
\* A command (not a timer) was carried out in this step.
CommandStepped == last' # last /\ last'.op \notin {"inv_tick", "robot_tick"}

\* C30: a report against a citizen under investigation who still holds a
\* hoard adds the reporter to the one open case and does nothing else: no
\* second investigation, ticks_remaining not raised, no fine, the offense
\* counter unchanged; a report by a citizen already among the reporters
\* leaves the case as it is.
C30_ReportDuringInvestigationOnlyAdds ==
    [][/\ \A t \in Citizens : \A k \in DOMAIN investigations'[t] :
             \A r \in investigations'[t][k].reporters :
                 add_reporter(investigations'[t][k], r) = investigations'[t][k]
       /\ \A t \in Citizens :
             (/\ CommandStepped
              /\ under_investigation[t]
              /\ investigations[t] # <<>>
              /\ get_player_item_count(t) >= HOARDING_MINOR_THRESHOLD)
             => /\ Len(investigations'[t]) = Len(investigations[t])
                /\ investigations'[t][1].ticks_remaining
                       <= investigations[t][1].ticks_remaining
                /\ investigations'[t][1].total_ticks
                       = investigations[t][1].total_ticks
                /\ investigations[t][1].reporters
                       \subseteq investigations'[t][1].reporters
                /\ (last'.op = "report" /\ last'.target = t)
                       => /\ last'.result = "added"
                          /\ investigations'[t][1].reporters
                                = investigations[t][1].reporters
                                     \cup {last'.caller}
                /\ under_investigation'[t]
                /\ ash_tokens'[t] = ash_tokens[t]
                /\ hoarding_offenses'[t] = hoarding_offenses[t]
                /\ station_ash_pool' = station_ash_pool]_vars

\* A second reporter was added to an open case and took a tick off it.
C30_Witness ==
    /\ last.op = "report"
    /\ last.result = "added"
    /\ last.flagged
    /\ last.scripts = 1
    /\ Len(investigations[last.target]) = 1
    /\ Cardinality(investigations[last.target][1].reporters) = 2
    /\ investigations[last.target][1].ticks_remaining < last.ticks
    /\ hoarding_offenses[last.target] = last.offenses
    /\ ash_tokens[last.target] = last.ash


(***************************************************************************)
(* Claims about reports that are not looked into (SpecQuiet).              *)
(***************************************************************************)
\* C31: a report against a citizen whose item total is below the minor
\* threshold, or against oneself, changes nothing: not the target's
\* balance, offense counter or flag, not the pool, not an open
\* investigation's reporters or ticks, whether the target is clean, has
\* earlier offenses or is under investigation.
C31_ReportBelowThresholdIsNoOp ==
    [][\A caller \in Citizens, target \in Citizens :
          (/\ Report(caller, target)
           /\ \/ get_player_item_count(target) < HOARDING_MINOR_THRESHOLD
              \/ caller = target)
          => /\ ash_tokens' = ash_tokens
             /\ hoarding_offenses' = hoarding_offenses
             /\ under_investigation' = under_investigation
             /\ station_ash_pool' = station_ash_pool
             /\ investigations' = investigations]_vars

\* A citizen fined twice and now under investigation has got below the
\* threshold, and somebody else is there to report them.
C31_Witness ==
    /\ under_investigation[Hoarder]
    /\ investigations[Hoarder] # <<>>
    /\ hoarding_offenses[Hoarder] = 2
    /\ get_player_item_count(Hoarder) < HOARDING_MINOR_THRESHOLD
    /\ last.op = "burn"
    /\ \E caller \in Citizens \ {Hoarder} :
          /\ ENABLED Report(caller, Hoarder)
          /\ caller \notin investigations[Hoarder][1].reporters


(***************************************************************************)
(* Claims about purchases through the menu (SpecBuyers).                   *)
(***************************************************************************)
\* The last step was a purchase confirmed in the menu.
BoughtInMenu == last.op = "do_buy" /\ last.result = "bought"

\* C32: a purchase confirmed in the menu takes its item from the shop's
\* stock only: a confirmation for an item that another buyer has bought in
\* the meantime charges nothing and takes nothing from that buyer.
C32_PurchaseOnlyFromStock ==
    BoughtInMenu => last.target = Nobody

\* The second of two buyers confirmed after the first: the second was
\* charged and the item went from the first buyer's inventory to the second.
C32_BoughtOutOfAnInventory ==
    /\ BoughtInMenu
    /\ last.target \in Citizens \ {last.caller}
    /\ InInventory(objects[last.item], last.caller)
    /\ ash_tokens[last.caller] = last.ash - last.amount
    /\ last.amount > 0


(***************************************************************************)
(* Claims about what is left after the punishment (SpecEstate).            *)
(***************************************************************************)
\* C33: right after EXECUTE the offender's item total (inventory plus what
\* stands on shelves the offender owns) is 0.
C33_NothingLeftAfterExecute ==
    Executed => get_player_item_count(last.target) = 0

\* EXECUTE has emptied the inventory and left the shelf as it was: the
\* offender's item total is what stands on the shelf.
C33_ShelfSurvivesExecute ==
    /\ Executed
    /\ carried[last.target] = 0
    /\ \A o \in ObjectIds : ~InInventory(objects[o], last.target)
    /\ \E shelf \in Shelves :
          /\ shelf_owner[shelf] = last.target
          /\ \E o \in ObjectIds : OnShelfOf(objects[o], shelf)
    /\ get_player_item_count(last.target) > 0

\* C33, as the code has it: after EXECUTE nothing is left in the inventory.
C33_InventoryEmptyAfterExecute ==
    Executed => get_player_item_count_inventory_only(last.target) = 0


(***************************************************************************)
(* Claims about the end of an enforcement run (SpecEnforceFair).           *)
(***************************************************************************)
\* How far a phase is in the order; a name without a handler counts as the
\* last one.
PhaseRank(phase) ==
    IF \E i \in DOMAIN PhaseOrder : PhaseOrder[i] = phase
    THEN PhaseIndex(phase) ELSE Len(PhaseOrder)

\* C34: with its timer firing, a robot script in any phase (known or not),
\* with or without a valid target, comes to its end: every tick either
\* ends the script and the robot or moves it to a later phase, so that at
\* most 6 ticks are needed; a script that has ended is not there to tick.
C34_EveryRunTerminates ==
    /\ [][\A t \in Citizens :
             RobotStepped(t)
             => \/ robots'[t] = <<>>
                \/ /\ Len(robots'[t]) = 1
                   /\ PhaseRank(robots'[t][1].phase)
                         = PhaseRank(robots[t][1].phase) + 1
                   /\ PhaseRank(robots'[t][1].phase) <= Len(PhaseOrder)]_vars
    /\ \A t \in Citizens : (robots[t] # <<>>) ~> (robots[t] = <<>>)

\* A script whose phase no handler exists for was cleaned up by its tick.
C34_Witness ==
    /\ last.op = "robot_tick"
    /\ last.phase = "unknown"
    /\ last.result = "cleanup"
    /\ robots[last.target] = <<>>

\* A script found in ANNOUNCE has gone all the way and ended.
C34_FullRunWitness ==
    /\ last.op = "robot_tick"
    /\ last.phase = "cleanup"
    /\ robots[last.target] = <<>>
    /\ ash_tokens[last.target] = -EUTHANASIA_DEBT

\* C35: after any sequence of claim, unclaim, display and retrieve commands
\* every shelf holds at most its capacity and has at most one owner; a claim
\* on a shelf owned by another existing citizen leaves the owner unchanged;
\* a display or retrieve by anyone but the shelf's owner moves no item.
ShelfWithinCapacity ==
    \A shelf \in Shelves :
        /\ shelf_load(shelf) <= SHELF_CAPACITY
        /\ shelf_owner[shelf] \in Citizens \cup {Nobody}

ClaimOnOwnedShelfFails ==
    \A caller \in Citizens, shelf \in Shelves :
        (/\ CmdClaim(caller, shelf)
         /\ shelf_owner[shelf] \notin {Nobody, caller}
         /\ valid[shelf_owner[shelf]])
        => shelf_owner' = shelf_owner

StrangerMovesNothing ==
    \A caller \in Citizens, shelf \in Shelves :
        (/\ shelf_owner[shelf] # caller
         /\ \/ CmdDisplayPlain(caller, shelf)
            \/ CmdRetrievePlain(caller, shelf)
            \/ \E o \in ObjectIds : CmdDisplay(caller, shelf, o)
            \/ \E o \in ObjectIds : CmdRetrieve(caller, shelf, o))
        => (objects' = objects /\ shelved' = shelved /\ carried' = carried)

C35_ShelvesBoundedAndOwned ==
    /\ []ShelfWithinCapacity
    /\ [][ClaimOnOwnedShelfFails /\ StrangerMovesNothing]_vars

\* A full shelf whose living owner still carries something to display, next
\* to a living citizen who does not own it.
C35_Witness ==
    \E shelf \in Shelves :
        /\ shelf_load(shelf) = SHELF_CAPACITY
        /\ shelf_owner[shelf] = 1
        /\ carried[1] > 0
        /\ valid[2]
        /\ last.op = "display"

\* C36 as stated: a citizen has at most one claimed display shelf at any
\* time.
C36_AtMostOneShelf ==
    \A c \in Citizens :
        Cardinality({shelf \in Shelves : shelf_owner[shelf] = c}) <= 1

\* C36 as the code has it: claims are exclusive per shelf, not per citizen.
\* The owner of a shelf is replaced only when the shelf has no existing
\* owner, and is removed only by the owner; how many other shelves the
\* claimant holds plays no part.
C36_ClaimsExclusivePerShelf ==
    [][\A shelf \in Shelves :
          shelf_owner'[shelf] # shelf_owner[shelf]
          => \/ /\ shelf_owner[shelf] = Nobody \/ ~valid[shelf_owner[shelf]]
                /\ shelf_owner'[shelf] \in Citizens
                /\ last'.op = "claim" /\ last'.caller = shelf_owner'[shelf]
             \/ /\ shelf_owner'[shelf] = Nobody
                /\ last'.op = "unclaim" /\ last'.caller = shelf_owner[shelf]]_vars

\* A living citizen who has just claimed a second shelf.
C36_TwoShelvesOneOwner ==
    /\ shelf_owner[1] = 1
    /\ shelf_owner[2] = 1
    /\ valid[1]
    /\ last.op = "claim"

\* C37: display followed by retrieve is a round trip on the weight
\* attributes: whatever weight_fraction the item had before (set or unset),
\* once it is retrieved it is in the retriever's inventory with that
\* weight_fraction again, not flagged as displayed, and without an
\* original_weight_fraction.  While it stands on the shelf it carries the
\* display fraction.
OffShelfAsBefore(o) ==
    /\ objects[o].place = "inventory"
    /\ objects[o].weight_fraction = PriorFraction(o)
    /\ objects[o].original_weight_fraction = Unset
    /\ ~objects[o].displayed

C37_DisplayRetrieveRoundTrip ==
    \A o \in ObjectIds :
        IF OnShelf(objects[o])
        THEN /\ objects[o].displayed
             /\ objects[o].weight_fraction = DISPLAY_WEIGHT_FRACTION
        ELSE /\ OffShelfAsBefore(o)
             /\ (last.op = "retrieve" /\ last.amount = o)
                    => objects[o].holder = last.caller

\* Each kind of item has just come back from the shelf: without a fraction,
\* with a material's, and with one equal to the shelf's.
C37_Witness ==
    /\ last.op = "retrieve"
    /\ last.amount = 3
    /\ \A o \in 1..3 : InInventory(objects[o], 2)

\* C38: combine refuses, and changes nothing, when one of the two inputs is
\* not a raw material, when both inputs are the same object, or when the
\* platform is sinking; a combine that goes through deletes exactly its two
\* inputs and creates exactly one new item.
CombineRefused(mat1, mat2) ==
    \/ ~objects[mat1].material
    \/ ~objects[mat2].material
    \/ mat1 = mat2
    \/ get_danger_level(get_item_count, ZONE_ITEM_LIMIT) = LEVEL_SINKING

NothingMutated ==
    /\ objects' = objects
    /\ carried' = carried
    /\ ground' = ground
    /\ ash_tokens' = ash_tokens
    /\ station_ash_pool' = station_ash_pool

TwoDeletedOneCreated(mat1, mat2) ==
    /\ ~Exists(objects'[mat1])
    /\ ~Exists(objects'[mat2])
    /\ \E new_obj \in ObjectIds \ {mat1, mat2} :
          /\ ~Exists(objects[new_obj])
          /\ Exists(objects'[new_obj])
          /\ \A o \in ObjectIds \ {mat1, mat2, new_obj} : objects'[o] = objects[o]
    /\ carried' = carried
    /\ ground' = ground

C38_CombineRefusesOrTradesTwoForOne ==
    [][\A caller \in Citizens, mat1, mat2 \in ObjectIds, proto \in craft_item :
          CmdCombine(caller, mat1, mat2, proto)
          => IF CombineRefused(mat1, mat2)
             THEN NothingMutated /\ last'.result # "crafted"
             ELSE TwoDeletedOneCreated(mat1, mat2) /\ last'.result = "crafted"]_vars

\* An item has been crafted out of objects 1 and 2.
C38_Witness ==
    /\ last.op = "combine"
    /\ last.result = "crafted"
    /\ ~Exists(objects[1])
    /\ ~Exists(objects[2])
    /\ Exists(objects[3])

\* Each of the three refusals has happened.
C38_RefusedNotMaterial == last.op = "combine" /\ last.result = "not_material"
C38_RefusedSame == last.op = "combine" /\ last.result = "same"
C38_RefusedSinking == last.op = "combine" /\ last.result = "sinking"

\* C39: server start is idempotent.  After any number of at_server_start
\* calls, with pool operations in between, there is exactly one item_monitor
\* script and one shop_restock script; a start sets the pool to
\* STATION_INITIAL_ASH_POOL only when it was never set and leaves every
\* existing value alone, a pool drained to 0 included.
C39_ServerStartIdempotent ==
    /\ [](server_scripts \in {FreshDatabase, Started})
    /\ [][at_server_start
             => /\ server_scripts' = Started
                /\ station_ash_pool' = IF station_ash_pool = Unset
                                       THEN STATION_INITIAL_ASH_POOL
                                       ELSE station_ash_pool]_vars

\* The server has been started again on a pool drained to 0.
C39_Witness ==
    /\ last.op = "start"
    /\ last.pool = 0
    /\ last.amount = 2
    /\ station_ash_pool = 0
    /\ server_scripts = Started

\* C40: a restock first deletes every for-sale item listed for longer than
\* SHOP_ITEM_TTL and keeps the others, then adds at most
\* min(SHOP_RESTOCK_COUNT, SHOP_MAX_INVENTORY - current stock) new items,
\* none when the stock is SHOP_MAX_INVENTORY or more; a restock never raises
\* the stock above SHOP_MAX_INVENTORY.
FreshAges == {age \in Ages : age * SHOP_RESTOCK_INTERVAL <= SHOP_ITEM_TTL}

RestockExpiresThenTopsUp ==
    LET current == SumListed(shop_listed, FreshAges)
        added == shop_listed'[0] - shop_listed[0]
        stock_after == SumListed(shop_listed', Ages)
    IN /\ \A age \in Ages \ FreshAges : shop_listed'[age] = 0
       /\ \A age \in FreshAges \ {0} : shop_listed'[age] = shop_listed[age]
       /\ added >= 0
       /\ added <= Max(0, Min(SHOP_RESTOCK_COUNT, SHOP_MAX_INVENTORY - current))
       /\ current >= SHOP_MAX_INVENTORY => added = 0
       /\ stock_after = current + added
       /\ stock_after > SHOP_MAX_INVENTORY
             => stock_after <= SumListed(shop_listed, Ages)

C40_RestockExpiresThenTopsUp ==
    [][ShopRestockRepeat => RestockExpiresThenTopsUp]_vars

\* A full counter of stale items has been cleared and restocked with
\* SHOP_RESTOCK_COUNT new ones.
C40_Witness ==
    /\ last.op = "restock"
    /\ last.count = SHOP_MAX_INVENTORY
    /\ last.amount = SHOP_RESTOCK_COUNT
    /\ shop_listed[0] = SHOP_RESTOCK_COUNT

\* A restock of a counter one short of SHOP_MAX_INVENTORY has added one item.
C40_ToppedUpToMax ==
    /\ last.op = "restock"
    /\ last.count = SHOP_MAX_INVENTORY - 1
    /\ last.amount = SHOP_MAX_INVENTORY

\* A restock has left a counter that holds more than SHOP_MAX_INVENTORY
\* fresh items alone.
C40_OverfullLeftAlone ==
    /\ last.op = "restock"
    /\ last.count > SHOP_MAX_INVENTORY
    /\ last.amount = last.count

=============================================================================
